---- MODULE Spec2Model ----
(***************************************************************************)
(* Voice messenger: the session coordinator of one device                  *)
(* (src/client/main.py, class VoiceMessenger), the relay transport it      *)
(* talks through (src/client/network.py, class WebSocketNetwork) and the   *)
(* relay hub (src/server/server.py).                                       *)
(*                                                                         *)
(* Spec      the coordinator of one device; every handler runs to          *)
(*           completion before the next one starts.                        *)
(* SpecHub   the relay hub, fed any wire message on any open connection.   *)
(* SpecRelay two devices' transports, the hub and the connections between. *)
(* SpecThreads the coordinator with its handlers on the threads that run   *)
(*           them.                                                         *)
(***************************************************************************)
EXTENDS Naturals, Integers, Sequences, FiniteSets, TLC

None == "None"
\* pending_autoplay is <<>> (Python None) or a one-element sequence holding
\* the stashed {friend_id, message_data}.
NoPending == <<>>

\* ---------------------------------------------------------------- bounds
\* Total number of messages (sent and received) the device stores.
MaxMsgs == 2
\* Number of audio files that may disappear from disk.
MaxMissing == 1

\* ------------------------------------------------------- configuration
\* config.friends of a configured device: friend_id -> {name, device_id, ...}
AllFriends == {"alice", "bob"}
\* list(self.config.friends.keys())[0]
FirstFriend == "alice"

IDLE == "IDLE"
RECORDING == "RECORDING"
PLAYING == "PLAYING"
State == {IDLE, RECORDING, PLAYING}

VARIABLES
    \* ---- VoiceMessenger (main.py __init__)
    friends,                    \* config.friends.keys()
    state,
    selected_friend,
    messages,                   \* friend -> sequence of entries, newest first
    message_sent_status,        \* friend -> BOOLEAN
    playback_friend,
    playback_index,
    playback_timer,             \* TRUE while a threading.Timer is pending
    conversation_mode,
    conversation_timeout_timer, \* TRUE while the 300 s timer is pending
    pending_autoplay,           \* NoPending or <<[friend_id, message_data]>>
    friend_is_recording,        \* friend -> BOOLEAN
    \* ---- HardwareController
    leds,                       \* friend -> what its RGB LED was last set to
    \* ---- AudioController
    audio_recording,            \* audio.recording
    files,                      \* audio files that exist on disk (by message id)
    \* ---- WebSocketNetwork (the part the coordinator reads)
    mock_mode,
    connected,
    online_friends,
    \* ---- observation of the last handler that ran
    calls                       \* the calls it made on its collaborators, in order

VARIABLES
    \* ---- relay hub (server.py module state)
    connected_devices,          \* device_id -> connection
    device_info,                \* device_id -> {name, friends}
    device_registry,            \* device_id -> {name, registered_at, last_seen}
    devices_file,               \* what devices.json holds
    hub_clock,                  \* datetime.now() on the hub's machine
    conn_state,                 \* connection -> "free" | "open" | "closed"
    conn_device,                \* handle_websocket's local device_id
    \* ---- observation of the last hub handler that ran
    hub_sends                   \* <<[to, msg]>>: its send_json calls, in order

hubVars == <<connected_devices, device_info, device_registry, conn_state,
             conn_device, hub_sends, devices_file, hub_clock>>

VARIABLES
    \* ---- the transports of the devices on the relay (network.py), the
    \* ---- connections between them and the hub, and what they hand over
    t_friends,                  \* device -> config.friends: friend_id -> device_id
    t_conn,                     \* device -> its connection, 0 when not connected
    t_online,                   \* device -> online_friends
    c2h,                        \* connection -> frames on their way to the hub
    h2c,                        \* connection -> frames on their way to the device
    sent_messages,              \* device -> sequence of messages it has sent
    audio_files,                \* device -> message_id -> bytes of received_<id>.wav
    events                      \* device -> on_message_received calls so far

relayVars == <<t_friends, t_conn, t_online, c2h, h2c, sent_messages,
               audio_files, events>>

VARIABLES
    \* ---- where the threads of the device are inside the coordinator
    hw_pc,                      \* the hardware (button) thread
    net_pc,                     \* the transport's event-loop thread
    net_arg                     \* the arguments of the call the latter is in

threadVars == <<hw_pc, net_pc, net_arg>>

VARIABLES
    \* ---- one transport (network.py, WebSocketNetwork) and its threads
    running,                    \* self.running
    net_connected,              \* self.connected
    self_ws,                    \* self.ws: a connection, 0 for None
    self_loop,                  \* self.loop: the thread whose loop it is, 0 unset
    handler,                    \* thread -> [pc, ws]: _websocket_handler's position
    scheduled,                  \* coroutines handed to a loop: <<[loop, ws, kind]>>
    wire,                       \* connection -> frame types transmitted on it
    link_state,                 \* connection -> "free" | "open" | "closed"
    reachable,                  \* the hub accepts connections
    caller_pc,                  \* the calling thread inside a send: "idle" | "checked"
    caller_kind,                \* the frame type of the send it is in
    outcome                     \* the last send: [kind, fate, returned, raised]

linkVars == <<running, net_connected, self_ws, self_loop, handler, scheduled, wire,
              link_state, reachable, caller_pc, caller_kind, outcome>>

coordVars == <<friends, state, selected_friend, messages, message_sent_status,
               playback_friend, playback_index, playback_timer,
               conversation_mode, conversation_timeout_timer, pending_autoplay,
               audio_recording, files, mock_mode, connected, online_friends,
               calls, friend_is_recording, leds>>

VARIABLES
    \* ---- the life of the device process
    shut_down,                  \* VoiceMessenger.shutdown() has run
    mock_timers                 \* pending mock "heard" timers: {[friend_id, message_id]}

lifeVars == <<shut_down, mock_timers>>

VARIABLES
    \* ---- AudioManager (audio.py), what the player is playing
    now_playing                 \* id of the message being played, 0 for none

playerVars == <<now_playing>>

VARIABLES
    \* ---- the threads of the playback threading.Timer objects
    timer_threads               \* [expired, orphaned, firing], see NoTimerThreads

timerVars == <<timer_threads>>

vars == <<coordVars, hubVars, relayVars, threadVars, linkVars, lifeVars,
          playerVars, timerVars>>

\* what a step of the coordinator, run as a whole, leaves alone
outside == <<hubVars, relayVars, threadVars, linkVars, lifeVars, playerVars, timerVars>>

\* ------------------------------------------------------------- helpers
\* The coordinator's fields as one record, so that the methods of
\* VoiceMessenger become functions from record to record and a handler is
\* the composition of the methods it calls.
Cur ==
    [ state |-> state,
      selected_friend |-> selected_friend,
      messages |-> messages,
      message_sent_status |-> message_sent_status,
      playback_friend |-> playback_friend,
      playback_index |-> playback_index,
      playback_timer |-> playback_timer,
      conversation_mode |-> conversation_mode,
      conversation_timeout_timer |-> conversation_timeout_timer,
      pending_autoplay |-> pending_autoplay,
      audio_recording |-> audio_recording,
      files |-> files,
      friend_is_recording |-> friend_is_recording,
      leds |-> leds,
      calls |-> <<>> ]

Apply(r) ==
    /\ state' = r.state
    /\ selected_friend' = r.selected_friend
    /\ messages' = r.messages
    /\ message_sent_status' = r.message_sent_status
    /\ playback_friend' = r.playback_friend
    /\ playback_index' = r.playback_index
    /\ playback_timer' = r.playback_timer
    /\ conversation_mode' = r.conversation_mode
    /\ conversation_timeout_timer' = r.conversation_timeout_timer
    /\ pending_autoplay' = r.pending_autoplay
    /\ audio_recording' = r.audio_recording
    /\ files' = r.files
    /\ friend_is_recording' = r.friend_is_recording
    /\ leds' = r.leds
    /\ calls' = r.calls

RECURSIVE SumLen(_, _)
SumLen(msgs, S) ==
    IF S = {} THEN 0
    ELSE LET f == CHOOSE x \in S : TRUE
         IN Len(msgs[f]) + SumLen(msgs, S \ {f})

TotalMsgs(msgs) == SumLen(msgs, DOMAIN msgs)

\* str(uuid.uuid4()) / the message_id of an arriving message: an id no stored
\* message has yet.
FreshId(s) == TotalMsgs(s.messages) + 1

Call(s, c) == [s EXCEPT !.calls = Append(@, c)]

\* ------------------------------------------- transport, as the coordinator
\* ------------------------------------------- sees it (network.py)
\* A message is put on the connection only by a transport that is not in
\* mock mode and is connected (the mock_mode / "if not self.connected" tests).
OnWire == ~mock_mode /\ connected

\* Mutant of GetPeerStatus: the "if not self.connected" test is missing, so
\* a friend last reported online stays online after the connection is lost.
GetPeerStatus_Stale(f) ==
    IF mock_mode THEN "online"
    ELSE IF f \in online_friends THEN "online"
    ELSE "offline"

\* WebSocketNetwork.get_peer_status
GetPeerStatus(f) ==
    IF mock_mode THEN "online"
    ELSE IF ~connected THEN "disconnected"
    ELSE IF f \in online_friends THEN "online"
    ELSE "offline"

NetCall(name, f, id) == [op |-> name, to |-> f, id |-> id, wire |-> OnWire]
AudioCall(name, id) == [op |-> name, to |-> None, id |-> id, wire |-> FALSE]
HardwareCall(name, f) == [op |-> name, to |-> f, id |-> 0, wire |-> FALSE]

\* WebSocketNetwork.send_recording_started / send_recording_stopped /
\* send_message / notify_message_heard, as calls made by the coordinator.
SendRecordingStarted(s, f) == Call(s, NetCall("recording_started", f, 0))
SendRecordingStopped(s, f) == Call(s, NetCall("recording_stopped", f, 0))
SendMessage(s, f, file) == Call(s, NetCall("send_message", f, file))
NotifyMessageHeard(s, f, id) == Call(s, NetCall("message_heard", f, id))

\* ------------------------------------------------ VoiceMessenger methods
\* update_rgb_led: the unheard count
Unheard(s, f) ==
    {i \in DOMAIN s.messages[f] :
        ~s.messages[f][i].heard /\ s.messages[f][i].direction = "received"}

\* update_rgb_led: what the LED of friend f is set to
Indicator(s, f) ==
    IF s.state = RECORDING /\ s.selected_friend = f THEN "pulse_red"
    ELSE IF s.friend_is_recording[f] THEN "rainbow"
    ELSE IF Unheard(s, f) # {} THEN "pulse_green"
    ELSE IF s.message_sent_status[f] THEN "blue"
    ELSE IF GetPeerStatus(f) = "online" THEN "green"
    ELSE "off"

UpdateRgbLed(s, f) == [s EXCEPT !.leds[f] = Indicator(s, f)]

\* update_all_leds
UpdateAllLeds(s) == [s EXCEPT !.leds = [f \in DOMAIN s.leds |-> Indicator(s, f)]]

\* set_state
SetState(s, new_state) == UpdateAllLeds([s EXCEPT !.state = new_state])

\* _select_friend
SelectFriend(s, f) ==
    UpdateAllLeds(Call([s EXCEPT !.selected_friend = f],
                       HardwareCall("set_yellow_led", f)))

\* _cancel_conversation_timeout
CancelConversationTimeout(s) == [s EXCEPT !.conversation_timeout_timer = FALSE]

\* _reset_conversation_timeout
ResetConversationTimeout(s) ==
    [CancelConversationTimeout(s) EXCEPT !.conversation_timeout_timer = TRUE]

\* Mutant of StopPlayback: the "if self.state == State.PLAYING" test is
\* missing, so the coordinator is put to Idle from any state.
StopPlayback_Unguarded(s) ==
    LET s1 == Call([s EXCEPT !.playback_timer = FALSE],
                   AudioCall("stop_playback", 0))
        s2 == [s1 EXCEPT !.playback_friend = None, !.playback_index = -1]
    IN SetState(s2, IDLE)

\* Mutant of StopPlayback: playback_index is left where it was.
StopPlayback_KeepIndex(s) ==
    LET s1 == Call([s EXCEPT !.playback_timer = FALSE],
                   AudioCall("stop_playback", 0))
        s2 == [s1 EXCEPT !.playback_friend = None]
    IN IF s2.state = PLAYING THEN SetState(s2, IDLE) ELSE s2

\* _stop_playback
StopPlayback(s) ==
    LET s1 == Call([s EXCEPT !.playback_timer = FALSE],
                   AudioCall("stop_playback", 0))
        s2 == [s1 EXCEPT !.playback_friend = None, !.playback_index = -1]
    IN IF s2.state = PLAYING THEN SetState(s2, IDLE) ELSE s2

\* _on_playback_finished
OnPlaybackFinished(s) ==
    LET s1 == [s EXCEPT !.playback_timer = FALSE]
    IN IF s1.state # PLAYING THEN s1 ELSE StopPlayback(s1)

\* Mutant of PlayCurrentMessage: the message is marked heard before the
\* audio file is looked for.
PlayCurrentMessage_MarkFirst(s) ==
    IF s.playback_friend = None THEN s
    ELSE
      LET pf == s.playback_friend
          msgs == s.messages[pf]
          idx == s.playback_index
      IN IF msgs = <<>> \/ idx < 0 \/ idx >= Len(msgs)
         THEN StopPlayback(s)
         ELSE
           LET message == msgs[idx + 1]
               s0 == IF s.state # PLAYING THEN SetState(s, PLAYING) ELSE s
               s1 == [s0 EXCEPT !.messages[pf][idx + 1].heard = TRUE]
           IN IF message.file \notin s1.files
              THEN OnPlaybackFinished(s1)
              ELSE [Call(s1, AudioCall("play_message", message.id))
                      EXCEPT !.playback_timer = TRUE]

\* Mutant of PlayCurrentMessage: with the audio file missing the method just
\* returns, leaving the coordinator in Playing.
PlayCurrentMessage_StayPlaying(s) ==
    IF s.playback_friend = None THEN s
    ELSE
      LET pf == s.playback_friend
          msgs == s.messages[pf]
          idx == s.playback_index
      IN IF msgs = <<>> \/ idx < 0 \/ idx >= Len(msgs)
         THEN StopPlayback(s)
         ELSE
           LET message == msgs[idx + 1]
               s1 == IF s.state # PLAYING THEN SetState(s, PLAYING) ELSE s
           IN IF message.file \notin s1.files
              THEN s1
              ELSE
                LET s2 == IF message.direction = "received" /\ ~message.heard
                          THEN NotifyMessageHeard(
                                 [s1 EXCEPT !.messages[pf][idx + 1].heard = TRUE],
                                 pf, message.id)
                          ELSE s1
                    s3 == Call(s2, AudioCall("play_message", message.id))
                IN [s3 EXCEPT !.playback_timer = TRUE]

\* _play_current_message
PlayCurrentMessage(s) ==
    IF s.playback_friend = None THEN s
    ELSE
      LET pf == s.playback_friend
          msgs == s.messages[pf]
          idx == s.playback_index
      IN IF msgs = <<>> \/ idx < 0 \/ idx >= Len(msgs)
         THEN StopPlayback(s)
         ELSE
           LET message == msgs[idx + 1]
               s1 == IF s.state # PLAYING THEN SetState(s, PLAYING) ELSE s
           IN IF message.file \notin s1.files
              THEN OnPlaybackFinished(s1)
              ELSE
                LET s2 == IF message.direction = "received" /\ ~message.heard
                          THEN NotifyMessageHeard(
                                 [s1 EXCEPT !.messages[pf][idx + 1].heard = TRUE],
                                 pf, message.id)
                          ELSE s1
                    s3 == Call(s2, AudioCall("play_message", message.id))
                IN [s3 EXCEPT !.playback_timer = TRUE]

\* Mutant of StartPlayback: playback starts at the oldest message.
StartPlayback_Oldest(s, f) ==
    IF s.messages[f] = <<>> THEN s
    ELSE PlayCurrentMessage([s EXCEPT !.playback_friend = f,
                                      !.playback_index = Len(s.messages[f]) - 1])

\* _start_playback
StartPlayback(s, f) ==
    IF s.messages[f] = <<>> THEN s
    ELSE PlayCurrentMessage([s EXCEPT !.playback_friend = f, !.playback_index = 0])

\* _play_previous_message
PlayPreviousMessage(s) ==
    IF s.playback_friend = None THEN s
    ELSE
      LET s1 == Call([s EXCEPT !.playback_timer = FALSE],
                     AudioCall("stop_playback", 0))
          next == s1.playback_index + 1
          idx == IF next >= Len(s1.messages[s1.playback_friend]) THEN 0 ELSE next
      IN PlayCurrentMessage([s1 EXCEPT !.playback_index = idx])

\* Mutant of AutoPlayMessage: the sender is not made the selected friend.
AutoPlayMessage_NoSelect(s, f, message_data) ==
    IF s.state # IDLE THEN s
    ELSE PlayCurrentMessage([s EXCEPT !.playback_friend = f, !.playback_index = 0])

\* _auto_play_message
AutoPlayMessage(s, f, message_data) ==
    IF s.state # IDLE THEN s
    ELSE
      LET s1 == IF s.selected_friend # f THEN SelectFriend(s, f) ELSE s
      IN PlayCurrentMessage([s1 EXCEPT !.playback_friend = f, !.playback_index = 0])

\* _start_recording; startOk is FALSE when audio.start_recording hits its
\* "Recording error" branch and leaves audio.recording False.
StartRecording(s, startOk) ==
    IF s.selected_friend = None THEN s
    ELSE
      LET s1 == SetState(s, RECORDING)
          s2 == SendRecordingStarted(s1, s1.selected_friend)
          s3 == Call(s2, AudioCall("start_recording", 0))
      IN [s3 EXCEPT !.audio_recording = startOk]

\* Mutant of StopRecordingSend: the sent-status of the friend is not set.
StopRecordingSend_NoStatus(s, yield) ==
    LET f == s.selected_friend
        s1 == SendRecordingStopped(s, f)
        got == s1.audio_recording /\ yield
        id == FreshId(s1)
        s2 == Call([s1 EXCEPT !.audio_recording = FALSE],
                   AudioCall("stop_recording", IF got THEN id ELSE 0))
        msg_entry == [id |-> id, file |-> id, heard |-> TRUE, direction |-> "sent"]
    IN IF got
       THEN LET a == SendMessage([s2 EXCEPT !.files = @ \cup {id}], f, id)
            IN [a EXCEPT !.messages[f] = <<msg_entry>> \o @]
       ELSE s2

\* _stop_recording_and_send up to the insertion of the Sent entry; yield is
\* whether audio.stop_recording finds recorded audio to save. The
\* stop_recording call is logged with the file it returned (0 for None).
StopRecordingSend(s, yield) ==
    LET f == s.selected_friend
        s1 == SendRecordingStopped(s, f)
        got == s1.audio_recording /\ yield
        id == FreshId(s1)
        s2 == Call([s1 EXCEPT !.audio_recording = FALSE],
                   AudioCall("stop_recording", IF got THEN id ELSE 0))
        msg_entry == [id |-> id, file |-> id, heard |-> TRUE, direction |-> "sent"]
    IN IF got
       THEN LET a == SendMessage([s2 EXCEPT !.files = @ \cup {id}], f, id)
            IN [a EXCEPT !.messages[f] = <<msg_entry>> \o @,
                         !.message_sent_status[f] = TRUE]
       ELSE s2

\* _stop_recording_and_send from set_state(IDLE) on
StopRecordingFinish(s) ==
    LET s4 == SetState(s, IDLE)
    IN IF s4.pending_autoplay # NoPending
       THEN LET pending == s4.pending_autoplay[1]
            IN AutoPlayMessage([s4 EXCEPT !.pending_autoplay = NoPending],
                               pending.friend_id, pending.message_data)
       ELSE s4

\* _stop_recording_and_send
StopRecordingAndSend(s, yield) ==
    IF s.state # RECORDING \/ s.selected_friend = None THEN s
    ELSE StopRecordingFinish(StopRecordingSend(s, yield))

\* Mutant of CancelRecording: pending_autoplay is not cleared.
CancelRecording_KeepPending(s) ==
    IF s.state # RECORDING THEN s
    ELSE
      LET s1 == IF s.selected_friend # None
                THEN SendRecordingStopped(s, s.selected_friend) ELSE s
          s2 == Call([s1 EXCEPT !.audio_recording = FALSE],
                     AudioCall("stop_recording", 0))
      IN SetState(s2, IDLE)

\* _cancel_recording
CancelRecording(s) ==
    IF s.state # RECORDING THEN s
    ELSE
      LET s1 == IF s.selected_friend # None
                THEN SendRecordingStopped(s, s.selected_friend) ELSE s
          s2 == Call([s1 EXCEPT !.audio_recording = FALSE],
                     AudioCall("stop_recording", 0))
          s3 == SetState(s2, IDLE)
      IN [s3 EXCEPT !.pending_autoplay = NoPending]

\* ------------------------------------------------------- event handlers
\* handle_friend_button
HandleFriendButton(s, f) ==
    IF s.state = RECORDING THEN CancelRecording(s)
    ELSE IF s.state = PLAYING
         THEN IF f = s.selected_friend
              THEN PlayPreviousMessage(s)
              ELSE SelectFriend(StopPlayback(s), f)
    ELSE IF f = s.selected_friend
         THEN StartPlayback(s, f)
         ELSE SelectFriend(s, f)

\* Mutant of HandleRecordButton: the PLAYING branch is missing, so a press
\* while Playing goes on to start a recording.
HandleRecordButton_NoPlayingBranch(s, startOk, yield) ==
    IF s.state = RECORDING THEN StopRecordingAndSend(s, yield)
    ELSE IF s.selected_friend = None THEN s
    ELSE IF GetPeerStatus(s.selected_friend) = "online"
         THEN StartRecording(s, startOk)
         ELSE s

\* handle_record_button
HandleRecordButton(s, startOk, yield) ==
    IF s.state = RECORDING THEN StopRecordingAndSend(s, yield)
    ELSE IF s.state = PLAYING THEN StopPlayback(s)
    ELSE IF s.selected_friend = None THEN s
    ELSE IF GetPeerStatus(s.selected_friend) = "online"
         THEN StartRecording(s, startOk)
         ELSE UpdateAllLeds(Call(s, HardwareCall("flash_all_red", None)))

\* Mutant of HandleDialogButton: leaving conversation mode does not cancel
\* the inactivity timer.
HandleDialogButton_NoCancel(s) ==
    LET s1 == IF s.state = PLAYING THEN StopPlayback(s)
              ELSE IF s.state = RECORDING THEN CancelRecording(s)
              ELSE s
        s2 == [s1 EXCEPT !.conversation_mode = ~@]
    IN IF s2.conversation_mode THEN ResetConversationTimeout(s2) ELSE s2

\* handle_dialog_button
HandleDialogButton(s) ==
    LET s1 == IF s.state = PLAYING THEN StopPlayback(s)
              ELSE IF s.state = RECORDING THEN CancelRecording(s)
              ELSE s
        s2 == [s1 EXCEPT !.conversation_mode = ~@]
    IN IF s2.conversation_mode
       THEN ResetConversationTimeout(s2)
       ELSE CancelConversationTimeout(s2)

\* Mutant of MessageReceivedInsert: the entry is appended at the end of the
\* sequence instead of inserted at index 0.
MessageReceivedInsert_Append(s, f, message_data) ==
    LET entry == [id |-> message_data.id, file |-> message_data.file,
                  heard |-> FALSE, direction |-> "received"]
        s1 == [s EXCEPT !.messages[f] = Append(@, entry)]
    IN IF s1.conversation_mode THEN ResetConversationTimeout(s1) ELSE s1

\* handle_message_received up to its test of self.state: the entry is
\* inserted and, in conversation mode, the timeout restarted.  message_data
\* = {id, file, timestamp} as built by WebSocketNetwork._receive_voice_message
MessageReceivedInsert(s, f, message_data) ==
    LET entry == [id |-> message_data.id, file |-> message_data.file,
                  heard |-> FALSE, direction |-> "received"]
        s1 == [s EXCEPT !.messages[f] = <<entry>> \o @]
    IN IF s1.conversation_mode THEN ResetConversationTimeout(s1) ELSE s1

\* handle_message_received: the branch its tests of conversation_mode and
\* state select
MessageReceivedBranch(s) ==
    IF ~s.conversation_mode THEN "done"
    ELSE IF s.state = RECORDING THEN "queue"
    ELSE IF s.state = IDLE THEN "autoplay"
    ELSE "done"

\* Mutant of MessageReceivedAct: an item that is already pending is kept, so
\* the first arrival wins.
MessageReceivedAct_KeepFirst(s, branch, f, message_data) ==
    IF branch = "queue"
    THEN IF s.pending_autoplay # NoPending THEN s
         ELSE [s EXCEPT !.pending_autoplay =
                  <<[friend_id |-> f, message_data |-> message_data]>>]
    ELSE IF branch = "autoplay" THEN AutoPlayMessage(s, f, message_data)
    ELSE s

\* handle_message_received: the body of the selected branch
MessageReceivedAct(s, branch, f, message_data) ==
    IF branch = "queue"
    THEN [s EXCEPT !.pending_autoplay =
             <<[friend_id |-> f, message_data |-> message_data]>>]
    ELSE IF branch = "autoplay" THEN AutoPlayMessage(s, f, message_data)
    ELSE s

\* handle_message_received
HandleMessageReceived(s, f, message_data) ==
    LET s2 == MessageReceivedInsert(s, f, message_data)
    IN UpdateRgbLed(MessageReceivedAct(s2, MessageReceivedBranch(s2), f,
                                       message_data), f)

\* Mutant of HandleMessageHeard: the status is cleared only by an ack that
\* names the most recent message of the friend's sequence.
HandleMessageHeard_IfNewest(s, f, message_id) ==
    IF s.messages[f] # <<>> /\ s.messages[f][1].id = message_id
    THEN UpdateRgbLed([s EXCEPT !.message_sent_status[f] = FALSE], f)
    ELSE s

\* handle_message_heard
HandleMessageHeard(s, f, message_id) ==
    UpdateRgbLed([s EXCEPT !.message_sent_status[f] = FALSE], f)

\* handle_recording_started
HandleRecordingStarted(s, f) ==
    UpdateRgbLed([s EXCEPT !.friend_is_recording[f] = TRUE], f)

\* handle_recording_stopped
HandleRecordingStopped(s, f) ==
    UpdateRgbLed([s EXCEPT !.friend_is_recording[f] = FALSE], f)

\* _conversation_timeout_expired
ConversationTimeoutExpired(s) ==
    [s EXCEPT !.conversation_timeout_timer = FALSE, !.conversation_mode = FALSE]

\* ============================================================ the relay hub
\* ------------------------------------------------- (src/server/server.py)
\* Connections ever accepted by the hub (handle_websocket invocations).
MaxConns == 2
Conns == 1..MaxConns

DeviceIds == {"A", "B"}
DeviceNames == {"kitchen"}
\* the 'friends' arrays a register message may carry
FriendLists == {<<>>, <<"A">>, <<"B">>, <<"A", "B">>}

\* A JSON object on the wire.  A key that is absent reads as Python None /
\* the .get default; None, 0 and <<>> are the falsy values of their fields.
WireMsg(type) ==
    [ type |-> type, device_id |-> None, device_name |-> None,
      friends |-> <<>>, recipient_id |-> None, sender_id |-> None,
      listener_id |-> None, friend_id |-> None, message_id |-> 0,
      audio_data |-> <<>>, timestamp |-> 0 ]

\* a text frame that json.loads rejects
InvalidJson == WireMsg("<invalid json>")

\* ---- connected_devices: a dict, kept in insertion order
Keys(d) == {d[i].id : i \in DOMAIN d}
Get(d, k) == d[CHOOSE i \in DOMAIN d : d[i].id = k].ws
Put(d, k, ws) ==
    IF k \in Keys(d)
    THEN [i \in DOMAIN d |-> IF d[i].id = k THEN [id |-> k, ws |-> ws] ELSE d[i]]
    ELSE Append(d, [id |-> k, ws |-> ws])
Del(d, k) == SelectSeq(d, LAMBDA e : e.id # k)

\* ---- device_info / device_registry: dicts whose order is never observed
PutF(d, k, v) == [x \in DOMAIN d \cup {k} |-> IF x = k THEN v ELSE d[x]]

InSeq(x, seq) == \E i \in DOMAIN seq : seq[i] = x

\* The hub's module state plus the handling connection's local device_id, as
\* one record, so that the handlers are functions from record to record.
HubCur(c) ==
    [ connected_devices |-> connected_devices,
      device_info |-> device_info,
      device_registry |-> device_registry,
      devices_file |-> devices_file,
      now |-> hub_clock,
      device_id |-> conn_device[c],
      sends |-> <<>> ]

HubApply(c, h) ==
    /\ connected_devices' = h.connected_devices
    /\ device_info' = h.device_info
    /\ device_registry' = h.device_registry
    /\ devices_file' = h.devices_file
    /\ conn_device' = [conn_device EXCEPT ![c] = h.device_id]
    /\ hub_sends' = h.sends
    /\ UNCHANGED hub_clock

\* Mutant of RegistryUpdate: the entry is written anew at every
\* registration.
RegistryUpdate_Renew(reg, device_id, device_name, now) ==
    PutF(reg, device_id,
         [name |-> device_name, registered_at |-> now, last_seen |-> now])

\* handle_register, "Persist to device registry"
RegistryUpdate(reg, device_id, device_name, now) ==
    IF device_id \in DOMAIN reg
    THEN [reg EXCEPT ![device_id].name = device_name,
                     ![device_id].last_seen = now]
    ELSE PutF(reg, device_id,
              [name |-> device_name, registered_at |-> now, last_seen |-> now])

\* save_device_registry(device_registry)
SaveDeviceRegistry(h) == [h EXCEPT !.devices_file = h.device_registry]

\* ws.send_json(msg) on a connection that accepts it
SendJson(h, ws, msg) == [h EXCEPT !.sends = Append(@, [to |-> ws, msg |-> msg])]

\* A connection that has closed but is still in connected_devices rejects
\* the frame: send_json either raises or drops it, depending on the
\* transport's state (the choice is the handler's input 'raises').
Accepts(ws) == conn_state[ws] = "open"

\* Mutant of NotifyFrom: a device is told only if the listing is mutual.
RECURSIVE NotifyFrom_Mutual(_, _, _, _)
NotifyFrom_Mutual(h, i, device_id, online) ==
    IF i > Len(h.connected_devices) THEN h
    ELSE LET other_id == h.connected_devices[i].id
             other_ws == h.connected_devices[i].ws
             other_friends ==
                 IF other_id \in DOMAIN h.device_info
                 THEN h.device_info[other_id].friends ELSE <<>>
             own_friends ==
                 IF device_id \in DOMAIN h.device_info
                 THEN h.device_info[device_id].friends ELSE <<>>
             msg == [WireMsg(IF online THEN "friend_online"
                                       ELSE "friend_offline")
                       EXCEPT !.friend_id = device_id]
             h1 == IF /\ other_id # device_id
                      /\ InSeq(device_id, other_friends)
                      /\ InSeq(other_id, own_friends)
                      /\ Accepts(other_ws)
                   THEN SendJson(h, other_ws, msg)
                   ELSE h
         IN NotifyFrom_Mutual(h1, i + 1, device_id, online)

\* notify_friends_of_status_change: every send is in its own try/except
RECURSIVE NotifyFrom(_, _, _, _)
NotifyFrom(h, i, device_id, online) ==
    IF i > Len(h.connected_devices) THEN h
    ELSE LET other_id == h.connected_devices[i].id
             other_ws == h.connected_devices[i].ws
             other_friends ==
                 IF other_id \in DOMAIN h.device_info
                 THEN h.device_info[other_id].friends ELSE <<>>
             msg == [WireMsg(IF online THEN "friend_online"
                                       ELSE "friend_offline")
                       EXCEPT !.friend_id = device_id]
             h1 == IF /\ other_id # device_id
                      /\ InSeq(device_id, other_friends)
                      /\ Accepts(other_ws)
                   THEN SendJson(h, other_ws, msg)
                   ELSE h
         IN NotifyFrom(h1, i + 1, device_id, online)

NotifyFriendsOfStatusChange(h, device_id, online) ==
    NotifyFrom(h, 1, device_id, online)

\* Mutant of HandleRegister: the other devices are notified before the
\* registering device gets its confirmation and snapshot.
HandleRegister_NotifyFirst(h, ws, data) ==
    IF data.device_id = None
    THEN [SendJson(h, ws, WireMsg("error")) EXCEPT !.device_id = None]
    ELSE LET device_id == data.device_id
             device_name == IF data.device_name = None THEN "Unknown"
                            ELSE data.device_name
             h1 == [h EXCEPT
                      !.connected_devices = Put(@, device_id, ws),
                      !.device_info = PutF(@, device_id,
                          [name |-> device_name, friends |-> data.friends]),
                      !.device_registry = RegistryUpdate(@, device_id,
                                                         device_name, h.now)]
             h2 == NotifyFriendsOfStatusChange(SaveDeviceRegistry(h1),
                                               device_id, TRUE)
             h3 == SendJson(h2, ws,
                      [WireMsg("registered") EXCEPT !.device_id = device_id])
             friends_online ==
                 SelectSeq(data.friends,
                           LAMBDA fid : fid \in Keys(h1.connected_devices))
             h4 == IF friends_online # <<>>
                   THEN SendJson(h3, ws, [WireMsg("friends_online")
                                            EXCEPT !.friends = friends_online])
                   ELSE h3
         IN [h4 EXCEPT !.device_id = device_id]

\* handle_register; its return value becomes the connection's device_id
HandleRegister(h, ws, data) ==
    IF data.device_id = None
    THEN [SendJson(h, ws, WireMsg("error")) EXCEPT !.device_id = None]
    ELSE LET device_id == data.device_id
             device_name == IF data.device_name = None THEN "Unknown"
                            ELSE data.device_name
             h1 == [h EXCEPT
                      !.connected_devices = Put(@, device_id, ws),
                      !.device_info = PutF(@, device_id,
                          [name |-> device_name, friends |-> data.friends]),
                      !.device_registry = RegistryUpdate(@, device_id,
                                                         device_name, h.now)]
             h2 == SendJson(SaveDeviceRegistry(h1), ws,
                      [WireMsg("registered") EXCEPT !.device_id = device_id])
             friends_online ==
                 SelectSeq(data.friends,
                           LAMBDA fid : fid \in Keys(h1.connected_devices))
             h3 == IF friends_online # <<>>
                   THEN SendJson(h2, ws, [WireMsg("friends_online")
                                            EXCEPT !.friends = friends_online])
                   ELSE h2
             h4 == NotifyFriendsOfStatusChange(h3, device_id, TRUE)
         IN [h4 EXCEPT !.device_id = device_id]

\* Mutant of ReplyRecipientOffline: the reply carries no message_id.
ReplyRecipientOffline_NoId(h, data, sender_id) ==
    IF sender_id \in Keys(h.connected_devices)
       /\ Accepts(Get(h.connected_devices, sender_id))
    THEN SendJson(h, Get(h.connected_devices, sender_id),
                  [WireMsg("recipient_offline")
                     EXCEPT !.recipient_id = data.recipient_id])
    ELSE h

\* handle_voice_message, the "recipient_id not in connected_devices" branch:
\* the reply goes to whatever connection is registered under sender_id
ReplyRecipientOffline(h, data, sender_id) ==
    IF sender_id \in Keys(h.connected_devices)
       /\ Accepts(Get(h.connected_devices, sender_id))
    THEN SendJson(h, Get(h.connected_devices, sender_id),
                  [WireMsg("recipient_offline")
                     EXCEPT !.recipient_id = data.recipient_id,
                            !.message_id = data.message_id])
    ELSE h

\* Mutant of ForwardVoiceMessage: the confirmation is sent before the
\* forward, so it goes out even when the forward raises.
ForwardVoiceMessage_DeliveredFirst(h, data, sender_id, raises) ==
    LET recipient_ws == Get(h.connected_devices, data.recipient_id)
        forward == [WireMsg("voice_message")
                      EXCEPT !.sender_id = sender_id,
                             !.message_id = data.message_id,
                             !.audio_data = data.audio_data,
                             !.timestamp = data.timestamp]
        delivered == [WireMsg("message_delivered")
                        EXCEPT !.recipient_id = data.recipient_id,
                               !.message_id = data.message_id]
        h1 == IF sender_id \in Keys(h.connected_devices)
                 /\ Accepts(Get(h.connected_devices, sender_id))
              THEN SendJson(h, Get(h.connected_devices, sender_id), delivered)
              ELSE h
    IN IF Accepts(recipient_ws) THEN SendJson(h1, recipient_ws, forward) ELSE h1

\* handle_voice_message, the forwarding branch
ForwardVoiceMessage(h, data, sender_id, raises) ==
    LET recipient_ws == Get(h.connected_devices, data.recipient_id)
        forward == [WireMsg("voice_message")
                      EXCEPT !.sender_id = sender_id,
                             !.message_id = data.message_id,
                             !.audio_data = data.audio_data,
                             !.timestamp = data.timestamp]
        delivered == [WireMsg("message_delivered")
                        EXCEPT !.recipient_id = data.recipient_id,
                               !.message_id = data.message_id]
        h1 == IF Accepts(recipient_ws)
              THEN SendJson(h, recipient_ws, forward) ELSE h
    IN IF ~Accepts(recipient_ws) /\ raises THEN h
       ELSE IF sender_id \in Keys(h.connected_devices)
               /\ Accepts(Get(h.connected_devices, sender_id))
       THEN SendJson(h1, Get(h.connected_devices, sender_id), delivered)
       ELSE h1

\* handle_voice_message
HandleVoiceMessage(h, data, sender_id, raises) ==
    IF data.recipient_id = None \/ data.message_id = 0 \/ data.audio_data = <<>>
    THEN h
    ELSE IF data.recipient_id \notin Keys(h.connected_devices)
    THEN ReplyRecipientOffline(h, data, sender_id)
    ELSE ForwardVoiceMessage(h, data, sender_id, raises)

\* handle_message_heard (server.py)
HubHandleMessageHeard(h, data, listener_id) ==
    IF data.sender_id = None \/ data.message_id = 0 THEN h
    ELSE IF data.sender_id \notin Keys(h.connected_devices) THEN h
    ELSE LET sender_ws == Get(h.connected_devices, data.sender_id)
         IN IF Accepts(sender_ws)
            THEN SendJson(h, sender_ws,
                          [WireMsg("message_heard")
                             EXCEPT !.listener_id = listener_id,
                                    !.message_id = data.message_id])
            ELSE h

\* handle_recording_status
HandleRecordingStatus(h, data, sender_id) ==
    IF data.recipient_id = None THEN h
    ELSE IF data.recipient_id \notin Keys(h.connected_devices) THEN h
    ELSE LET recipient_ws == Get(h.connected_devices, data.recipient_id)
         IN IF Accepts(recipient_ws)
            THEN SendJson(h, recipient_ws,
                          [WireMsg(data.type) EXCEPT !.sender_id = sender_id])
            ELSE h

\* handle_websocket: the body of "async for msg in ws" for one text frame
HandleWebsocketMsg(h, ws, raw, raises) ==
    IF raw = InvalidJson THEN h
    ELSE IF raw.type = "register" THEN HandleRegister(h, ws, raw)
    ELSE IF raw.type = "voice_message"
    THEN HandleVoiceMessage(h, raw, h.device_id, raises)
    ELSE IF raw.type = "message_heard"
    THEN HubHandleMessageHeard(h, raw, h.device_id)
    ELSE IF raw.type \in {"recording_started", "recording_stopped"}
    THEN HandleRecordingStatus(h, raw, h.device_id)
    ELSE IF raw.type = "ping" THEN SendJson(h, ws, WireMsg("pong"))
    ELSE h

\* handle_websocket: the finally block
HandleWebsocketFinally(h) ==
    IF h.device_id # None /\ h.device_id \in Keys(h.connected_devices)
    THEN NotifyFriendsOfStatusChange(
             [h EXCEPT !.connected_devices = Del(@, h.device_id)],
             h.device_id, FALSE)
    ELSE h

\* ---- the hub's actions
HubInit ==
    /\ connected_devices = <<>>
    /\ device_info = <<>>
    /\ device_registry = <<>>
    /\ devices_file = <<>>
    /\ hub_clock = 0
    /\ conn_state = [c \in Conns |-> "free"]
    /\ conn_device = [c \in Conns |-> None]
    /\ hub_sends = <<>>

\* a device opens a connection: handle_websocket starts, device_id = None
HubAccept(c) ==
    /\ conn_state[c] = "free"
    /\ \A c2 \in Conns : c2 < c => conn_state[c2] # "free"
    /\ conn_state' = [conn_state EXCEPT ![c] = "open"]
    /\ hub_sends' = <<>>
    /\ UNCHANGED <<connected_devices, device_info, device_registry, conn_device,
                   devices_file, hub_clock>>

\* a text frame arrives on an open connection
HubRecv(c, raw, raises) ==
    /\ conn_state[c] = "open"
    /\ raises => \E i \in DOMAIN connected_devices :
                     ~Accepts(connected_devices[i].ws)
    /\ HubApply(c, HandleWebsocketMsg(HubCur(c), c, raw, raises))
    /\ UNCHANGED conn_state

\* the connection closes; its handle_websocket task has not resumed yet
ConnCloses(c) ==
    /\ conn_state[c] = "open"
    /\ conn_state' = [conn_state EXCEPT ![c] = "closed"]
    /\ hub_sends' = <<>>
    /\ UNCHANGED <<connected_devices, device_info, device_registry, conn_device,
                   devices_file, hub_clock>>

\* handle_websocket leaves "async for", runs its finally block and returns
\* (its local device_id is gone with it)
HubCleanup(c) ==
    /\ conn_state[c] = "closed"
    /\ conn_state' = [conn_state EXCEPT ![c] = "done"]
    /\ LET h == HandleWebsocketFinally(HubCur(c))
       IN /\ connected_devices' = h.connected_devices
          /\ hub_sends' = h.sends
    /\ conn_device' = [conn_device EXCEPT ![c] = None]
    /\ UNCHANGED <<device_info, device_registry, devices_file, hub_clock>>

\* cleanup_stale_devices: the 300 s sweep of device_info
CleanupStaleDevices ==
    /\ \E d \in DOMAIN device_info : d \notin Keys(connected_devices)
    /\ device_info' = [d \in DOMAIN device_info \cap Keys(connected_devices)
                          |-> device_info[d]]
    /\ hub_sends' = <<>>
    /\ UNCHANGED <<connected_devices, device_registry, conn_state, conn_device,
                   devices_file, hub_clock>>

\* ---- the frames a peer may put on a connection
\* base64 text standing for "some audio" in a frame whose content the hub
\* never looks into
SomeAudio == <<0, 0, 64, 64>>

RegisterFrames ==
    { [WireMsg("register") EXCEPT !.device_id = d, !.device_name = n,
                                  !.friends = fl] :
        d \in DeviceIds \cup {None}, n \in DeviceNames, fl \in FriendLists }

\* well-formed for every recipient, and one frame per missing field
VoiceFrames ==
    { [WireMsg("voice_message") EXCEPT !.recipient_id = r, !.message_id = 1,
                                       !.audio_data = SomeAudio,
                                       !.timestamp = 7] :
        r \in DeviceIds \cup {None} }
    \cup { [WireMsg("voice_message") EXCEPT !.recipient_id = "B",
                                           !.message_id = id, !.audio_data = a,
                                           !.timestamp = 7] :
             id \in {0, 1}, a \in {<<>>, SomeAudio} }

HeardFrames ==
    { [WireMsg("message_heard") EXCEPT !.sender_id = s, !.message_id = 1] :
        s \in DeviceIds \cup {None} }
    \cup { [WireMsg("message_heard") EXCEPT !.sender_id = "A"] }

RecordingFrames ==
    { [WireMsg("recording_started") EXCEPT !.recipient_id = r] :
        r \in DeviceIds \cup {None} }
    \cup { [WireMsg("recording_stopped") EXCEPT !.recipient_id = "A"] }

HubInputs ==
    RegisterFrames \cup VoiceFrames \cup HeardFrames \cup RecordingFrames
    \cup {WireMsg("ping"), WireMsg("status"), InvalidJson}

\* ===================================================== devices on the relay
\* ------------------------------------------------ (src/client/network.py)
\* Voice messages the devices send, all together.
MaxSends == 1
\* Length of a recording, in bytes.
MaxAudioLen == 3

Devices == DeviceIds
Byte == {0, 255}
RECURSIVE BytesUpTo(_)
BytesUpTo(n) ==
    IF n = 0 THEN {<<>>}
    ELSE LET shorter == BytesUpTo(n - 1)
         IN shorter \cup {Append(b, x) : b \in {s \in shorter : Len(s) = n - 1},
                                         x \in Byte}
AudioBytes == BytesUpTo(MaxAudioLen)

\* ---- base64: text is a sequence of alphabet indices 0..63 and PAD ('=')
PAD == 64

\* Mutant of B64Encode: a final group of one or two bytes gets no padding.
RECURSIVE B64Encode_NoPad(_)
B64Encode_NoPad(b) ==
    IF Len(b) = 0 THEN <<>>
    ELSE IF Len(b) = 1
    THEN << b[1] \div 4, (b[1] % 4) * 16 >>
    ELSE IF Len(b) = 2
    THEN << b[1] \div 4, (b[1] % 4) * 16 + b[2] \div 16, (b[2] % 16) * 4 >>
    ELSE << b[1] \div 4, (b[1] % 4) * 16 + b[2] \div 16,
            (b[2] % 16) * 4 + b[3] \div 64, b[3] % 64 >>
         \o B64Encode_NoPad(SubSeq(b, 4, Len(b)))

\* base64.b64encode: three bytes become four 6-bit indices; a final group of
\* one or two bytes is zero-filled and padded to four characters
RECURSIVE B64Encode(_)
B64Encode(b) ==
    IF Len(b) = 0 THEN <<>>
    ELSE IF Len(b) = 1
    THEN << b[1] \div 4, (b[1] % 4) * 16, PAD, PAD >>
    ELSE IF Len(b) = 2
    THEN << b[1] \div 4, (b[1] % 4) * 16 + b[2] \div 16, (b[2] % 16) * 4, PAD >>
    ELSE << b[1] \div 4, (b[1] % 4) * 16 + b[2] \div 16,
            (b[2] % 16) * 4 + b[3] \div 64, b[3] % 64 >>
         \o B64Encode(SubSeq(b, 4, Len(b)))

\* base64.b64decode: four characters become three bytes, fewer for a padded
\* final group; text whose length is not a multiple of four raises
\* binascii.Error ("Incorrect padding"): ok is FALSE then
RECURSIVE B64DecodeBytes(_)
B64DecodeBytes(s) ==
    IF Len(s) = 0 THEN <<>>
    ELSE LET b1 == s[1] * 4 + s[2] \div 16
             b2 == (s[2] % 16) * 16 + s[3] \div 4
             b3 == (s[3] % 4) * 64 + s[4]
         IN IF s[3] = PAD THEN <<b1>>
            ELSE IF s[4] = PAD THEN <<b1, b2>>
            ELSE <<b1, b2, b3>> \o B64DecodeBytes(SubSeq(s, 5, Len(s)))

B64Decode(s) ==
    IF Len(s) % 4 # 0 THEN [ok |-> FALSE, bytes |-> <<>>]
    ELSE [ok |-> TRUE, bytes |-> B64DecodeBytes(s)]

\* ---- config.friends of a device: friend_id -> device_id
OtherDevice(d) == CHOOSE o \in Devices : o # d
FriendNameFor(o) == IF o = "A" THEN "alice" ELSE "bob"
\* A lists B; B lists A or nobody
FriendConfigs(d) ==
    { [f \in {FriendNameFor(OtherDevice(d))} |-> OtherDevice(d)] }
    \cup (IF d = "B" THEN { [f \in {} |-> None] } ELSE {})

\* _get_friend_id_by_device_id
GetFriendIdByDeviceId(cfg, device_id) ==
    IF \E f \in DOMAIN cfg : cfg[f] = device_id
    THEN CHOOSE f \in DOMAIN cfg : cfg[f] = device_id
    ELSE None

\* _register: the frame sent first on every connection
RegisterFrame(d, cfg) ==
    [WireMsg("register")
       EXCEPT !.device_id = d, !.device_name = "kitchen",
              !.friends = IF DOMAIN cfg = {} THEN <<>>
                          ELSE <<cfg[CHOOSE f \in DOMAIN cfg : TRUE]>>]

\* send_message: the frame put on the connection
VoiceFrame(target_device_id, message_id, audio_data) ==
    [WireMsg("voice_message")
       EXCEPT !.recipient_id = target_device_id, !.message_id = message_id,
              !.audio_data = B64Encode(audio_data), !.timestamp = 7]

\* The receiving side of a transport as a record: its online_friends, the
\* files it has written and the callbacks it has made.
\* _update_online_friends
UpdateOnlineFriends(tr, cfg, online_device_ids) ==
    [tr EXCEPT !.online = {f \in DOMAIN cfg : InSeq(cfg[f], online_device_ids)}]

\* _receive_voice_message: the file is written before the sender is looked
\* up; a decoding error ends the handler
ReceiveVoiceMessage(tr, cfg, data) ==
    LET decoded == B64Decode(data.audio_data)
        friend_id == GetFriendIdByDeviceId(cfg, data.sender_id)
        tr1 == [tr EXCEPT !.files = PutF(@, data.message_id, decoded.bytes)]
    IN IF ~decoded.ok THEN tr
       ELSE IF friend_id = None THEN tr1
       ELSE [tr1 EXCEPT !.events =
                Append(@, [kind |-> "message_received", friend_id |-> friend_id,
                           id |-> data.message_id, file |-> data.message_id,
                           timestamp |-> data.timestamp])]

\* _receive_message_heard / _receive_recording_started / _stopped
ReceiveNotification(tr, cfg, kind, device_id, message_id) ==
    LET friend_id == GetFriendIdByDeviceId(cfg, device_id)
    IN IF friend_id = None THEN tr
       ELSE [tr EXCEPT !.events =
                Append(@, [kind |-> kind, friend_id |-> friend_id,
                           id |-> message_id, file |-> 0, timestamp |-> 0])]

\* Mutant of HandleMessage: a recipient_offline reply is taken as news about
\* the friend, who is removed from online_friends.
HandleMessage_InferOffline(tr, cfg, data) ==
    IF data = InvalidJson THEN tr
    ELSE IF data.type = "friends_online"
    THEN UpdateOnlineFriends(tr, cfg, data.friends)
    ELSE IF data.type = "voice_message" THEN ReceiveVoiceMessage(tr, cfg, data)
    ELSE IF data.type = "message_heard"
    THEN ReceiveNotification(tr, cfg, "message_heard", data.listener_id,
                             data.message_id)
    ELSE IF data.type \in {"recording_started", "recording_stopped"}
    THEN ReceiveNotification(tr, cfg, data.type, data.sender_id, 0)
    ELSE IF data.type = "recipient_offline"
    THEN [tr EXCEPT !.online =
             @ \ {GetFriendIdByDeviceId(cfg, data.recipient_id)}]
    ELSE tr

\* _handle_message
HandleMessage(tr, cfg, data) ==
    IF data = InvalidJson THEN tr
    ELSE IF data.type = "friends_online"
    THEN UpdateOnlineFriends(tr, cfg, data.friends)
    ELSE IF data.type = "voice_message" THEN ReceiveVoiceMessage(tr, cfg, data)
    ELSE IF data.type = "message_heard"
    THEN ReceiveNotification(tr, cfg, "message_heard", data.listener_id,
                             data.message_id)
    ELSE IF data.type \in {"recording_started", "recording_stopped"}
    THEN ReceiveNotification(tr, cfg, data.type, data.sender_id, 0)
    ELSE tr

\* ---- the relay's actions
NoFiles == [id \in {} |-> <<>>]
NoFriends == [f \in {} |-> None]

RelayInit ==
    /\ t_friends \in {cfg \in [Devices -> UNION {FriendConfigs(d) : d \in Devices}] :
                         \A d \in Devices : cfg[d] \in FriendConfigs(d)}
    /\ t_conn = [d \in Devices |-> 0]
    /\ t_online = [d \in Devices |-> {}]
    /\ c2h = [c \in Conns |-> <<>>]
    /\ h2c = [c \in Conns |-> <<>>]
    /\ sent_messages = [d \in Devices |-> <<>>]
    /\ audio_files = [d \in Devices |-> NoFiles]
    /\ events = [d \in Devices |-> <<>>]

\* devices that are not running, for the other specifications
RelayParked == RelayInit /\ t_friends["B"] = NoFriends

TrCur(d) == [online |-> t_online[d], files |-> audio_files[d],
             events |-> events[d]]

TrApply(d, tr) ==
    /\ t_online' = [t_online EXCEPT ![d] = tr.online]
    /\ audio_files' = [audio_files EXCEPT ![d] = tr.files]
    /\ events' = [events EXCEPT ![d] = tr.events]

Attached(c) == \E d \in Devices : t_conn[d] = c

TotalSent == SumLen(sent_messages, Devices)

\* what the hub sends reaches the device reading the connection, if any
RECURSIVE Deliver(_, _)
Deliver(q, sends) ==
    IF sends = <<>> THEN q
    ELSE LET s == Head(sends)
             q1 == IF Attached(s.to)
                   THEN [q EXCEPT ![s.to] = Append(@, s.msg)] ELSE q
         IN Deliver(q1, Tail(sends))

\* _websocket_handler: connected; self.connected = True; _register()
RelayConnect(d, c) ==
    /\ t_conn[d] = 0
    /\ HubAccept(c)
    /\ t_conn' = [t_conn EXCEPT ![d] = c]
    /\ c2h' = [c2h EXCEPT ![c] = <<RegisterFrame(d, t_friends[d])>>]
    /\ UNCHANGED <<t_friends, t_online, h2c, sent_messages, audio_files, events>>

\* send_message(friend_id, audio_file) on a device whose file holds 'audio'.
\* Beside the friend_id that the code notes under message_id, an entry of
\* sent_messages records whether a frame went on the wire and with which
\* bytes.
RelaySend(d, friend_id, audio) ==
    /\ friend_id \in DOMAIN t_friends[d]
    /\ TotalSent < MaxSends
    /\ LET message_id == TotalSent + 1
       IN /\ sent_messages' = [sent_messages EXCEPT ![d] =
                 Append(@, [friend_id |-> friend_id, message_id |-> message_id,
                            on_wire |-> t_conn[d] # 0,
                            audio |-> IF t_conn[d] # 0 THEN audio ELSE <<>>])]
          /\ c2h' = IF t_conn[d] = 0 THEN c2h
                    ELSE [c2h EXCEPT ![t_conn[d]] =
                             Append(@, VoiceFrame(t_friends[d][friend_id],
                                                  message_id, audio))]
    /\ UNCHANGED <<t_friends, t_conn, t_online, h2c, audio_files, events, hubVars>>

\* the hub reads the next frame of a connection; what it sends goes on the
\* connections (hub_sends is not kept here)
RelayHubRecv(c, raises) ==
    /\ c2h[c] # <<>>
    /\ conn_state[c] = "open"
    /\ raises => \E i \in DOMAIN connected_devices :
                     ~Accepts(connected_devices[i].ws)
    /\ LET h == HandleWebsocketMsg(HubCur(c), c, Head(c2h[c]), raises)
       IN /\ HubApply(c, [h EXCEPT !.sends = <<>>])
          /\ h2c' = Deliver(h2c, h.sends)
    /\ c2h' = [c2h EXCEPT ![c] = Tail(@)]
    /\ UNCHANGED <<conn_state, t_friends, t_conn, t_online, sent_messages,
                   audio_files, events>>

\* _websocket_handler: "async for message in ws" -> _handle_message
RelayDeviceRecv(d) ==
    /\ t_conn[d] # 0
    /\ h2c[t_conn[d]] # <<>>
    /\ TrApply(d, HandleMessage(TrCur(d), t_friends[d], Head(h2c[t_conn[d]])))
    /\ h2c' = [h2c EXCEPT ![t_conn[d]] = Tail(@)]
    /\ UNCHANGED <<t_friends, t_conn, c2h, sent_messages, hubVars>>

\* _websocket_handler: the connection is lost; self.connected = False,
\* online_friends stays
RelayDisconnect(d) ==
    /\ t_conn[d] # 0
    /\ t_conn' = [t_conn EXCEPT ![d] = 0]
    /\ h2c' = [h2c EXCEPT ![t_conn[d]] = <<>>]
    /\ UNCHANGED <<t_friends, t_online, c2h, sent_messages, audio_files, events,
                   hubVars>>

\* the hub learns that a connection its device has left is closed
RelayConnCloses(c) ==
    /\ ~Attached(c)
    /\ c2h[c] = <<>>
    /\ ConnCloses(c)
    /\ UNCHANGED relayVars

RelayHubCleanup(c) ==
    /\ conn_state[c] = "closed"
    /\ conn_state' = [conn_state EXCEPT ![c] = "done"]
    /\ LET h == HandleWebsocketFinally(HubCur(c))
       IN /\ HubApply(c, [h EXCEPT !.sends = <<>>, !.device_id = None])
          /\ h2c' = Deliver(h2c, h.sends)
    /\ UNCHANGED <<t_friends, t_conn, t_online, c2h, sent_messages, audio_files,
                   events>>

\* ---- the threads of the device
ThreadsInit ==
    /\ hw_pc = "idle"
    /\ net_pc = "idle"
    /\ net_arg = <<>>

\* ---- the transport of the link, after construction
MaxStarts == 2
MaxLinkConns == 2
MaxScheduled == 2
MaxFrames == 3

HandlerThreads == 1..MaxStarts
LinkConns == 1..MaxLinkConns
SendKinds == {"voice_message", "message_heard", "recording_started",
              "recording_stopped"}

NoOutcome == [kind |-> None, fate |-> None, returned |-> None, raised |-> FALSE]

\* __init__
LinkInit ==
    /\ running = FALSE
    /\ net_connected = FALSE
    /\ self_ws = 0
    /\ self_loop = 0
    /\ handler = [th \in HandlerThreads |-> [pc |-> "unstarted", ws |-> 0]]
    /\ scheduled = <<>>
    /\ wire = [k \in LinkConns |-> <<>>]
    /\ link_state = [k \in LinkConns |-> "free"]
    /\ reachable \in BOOLEAN
    /\ caller_pc = "idle"
    /\ caller_kind = None
    /\ outcome = NoOutcome

LinkParked == LinkInit /\ ~reachable

\* Of the Timer objects _play_current_message has started: whether the one
\* self.playback_timer refers to has expired (its thread is past the wait
\* and cancel() no longer stops it), how many run on with no reference left
\* to them, and how many threads are past the wait and have not yet run
\* _on_playback_finished.
NoTimerThreads == [expired |-> FALSE, orphaned |-> 0, firing |-> 0]

\* ---- the device process has just started
LifeInit ==
    /\ shut_down = FALSE
    /\ mock_timers = {}
    /\ now_playing = 0
    /\ timer_threads = NoTimerThreads

\* ------------------------------------------------- the coordinator's Spec
\* VoiceMessenger.__init__ with no saved state, then WebSocketNetwork.start:
\* in mock mode every friend is put in online_friends.
CoordInit ==
    /\ friends \in {{}, AllFriends}
    /\ state = IDLE
    /\ selected_friend = IF friends = {} THEN None ELSE FirstFriend
    /\ messages = [f \in friends |-> <<>>]
    /\ message_sent_status = [f \in friends |-> FALSE]
    /\ playback_friend = None
    /\ playback_index = -1
    /\ playback_timer = FALSE
    /\ conversation_mode = FALSE
    /\ conversation_timeout_timer = FALSE
    /\ pending_autoplay = NoPending
    /\ audio_recording = FALSE
    /\ files = {}
    /\ mock_mode \in BOOLEAN
    /\ connected = FALSE
    /\ online_friends = IF mock_mode THEN friends ELSE {}
    /\ calls = <<>>
    /\ friend_is_recording = [f \in friends |-> FALSE]
    /\ leds = [f \in friends |-> IF mock_mode THEN "green" ELSE "off"]

\* a configured device that is not running, for the specifications that
\* are about the hub
CoordParked == CoordInit /\ friends = AllFriends /\ ~mock_mode

Config == <<friends, mock_mode>>
Net == <<connected, online_friends>>

\* hardware.on_friend_button(friend_id)
FriendButtonPressed(f) ==
    /\ f \in friends
    /\ Apply(HandleFriendButton(Cur, f))
    /\ UNCHANGED <<Config, Net, outside>>

\* hardware.on_record_button(); the two audio outcomes are inputs.
RecordButtonPressed(startOk, yield) ==
    /\ state = RECORDING => startOk
    /\ state # RECORDING => ~yield
    /\ yield => TotalMsgs(messages) < MaxMsgs
    /\ Apply(HandleRecordButton(Cur, startOk, yield))
    /\ UNCHANGED <<Config, Net, outside>>

\* hardware.on_dialog_button()
DialogButtonPressed ==
    /\ Apply(HandleDialogButton(Cur))
    /\ UNCHANGED <<Config, Net, outside>>

\* network.on_message_received(friend_id, message_data), called by
\* _receive_voice_message after it has written the audio file (or by
\* simulate_incoming_message in mock mode).
MessageArrived(f) ==
    /\ f \in friends
    /\ mock_mode \/ connected
    /\ TotalMsgs(messages) < MaxMsgs
    /\ LET id == FreshId(Cur)
           message_data == [id |-> id, file |-> id]
       IN Apply(HandleMessageReceived([Cur EXCEPT !.files = @ \cup {id}],
                                      f, message_data))
    /\ UNCHANGED <<Config, Net, outside>>

\* network.on_message_heard(friend_id, message_id)
MessageHeardAck(f, message_id) ==
    /\ f \in friends
    /\ mock_mode \/ connected
    /\ Apply(HandleMessageHeard(Cur, f, message_id))
    /\ UNCHANGED <<Config, Net, outside>>

\* the playback threading.Timer expires
PlaybackTimerFires ==
    /\ playback_timer
    /\ Apply(OnPlaybackFinished(Cur))
    /\ UNCHANGED <<Config, Net, outside>>

\* the conversation threading.Timer expires
ConversationTimeoutFired ==
    /\ conversation_timeout_timer
    /\ Apply(ConversationTimeoutExpired(Cur))
    /\ UNCHANGED <<Config, Net, outside>>

Coord == <<state, selected_friend, messages, message_sent_status,
           playback_friend, playback_index, playback_timer, conversation_mode,
           conversation_timeout_timer, pending_autoplay, audio_recording>>
Shown == <<friend_is_recording, leds>>

\* _websocket_handler: the connection is established (self.connected = True)
TransportConnects ==
    /\ ~mock_mode /\ ~connected
    /\ connected' = TRUE
    /\ calls' = <<>>
    /\ UNCHANGED <<Config, Coord, Shown, files, online_friends, outside>>

\* _websocket_handler: the connection is lost (self.connected = False);
\* online_friends is left as it was.
TransportDisconnects ==
    /\ ~mock_mode /\ connected
    /\ connected' = FALSE
    /\ calls' = <<>>
    /\ UNCHANGED <<Config, Coord, Shown, files, online_friends, outside>>

\* _handle_message 'friends_online' -> _update_online_friends
FriendsOnline(S) ==
    /\ ~mock_mode /\ connected
    /\ S \subseteq friends
    /\ online_friends' = S
    /\ calls' = <<>>
    /\ UNCHANGED <<Config, Coord, Shown, files, connected, outside>>

\* an audio file disappears from disk (error taxonomy (c) of the design)
FileVanishes(id) ==
    /\ id \in files
    /\ TotalMsgs(messages) - Cardinality(files) < MaxMissing
    /\ files' = files \ {id}
    /\ calls' = <<>>
    /\ UNCHANGED <<Config, Coord, Shown, Net, outside>>

Next ==
    \/ \E f \in AllFriends : FriendButtonPressed(f)
    \/ \E startOk, yield \in BOOLEAN : RecordButtonPressed(startOk, yield)
    \/ DialogButtonPressed
    \/ \E f \in AllFriends : MessageArrived(f)
    \/ \E f \in AllFriends, id \in {1, MaxMsgs + 1} : MessageHeardAck(f, id)
    \/ PlaybackTimerFires
    \/ ConversationTimeoutFired
    \/ TransportConnects
    \/ TransportDisconnects
    \/ \E S \in SUBSET AllFriends : FriendsOnline(S)
    \/ \E id \in 1..MaxMsgs : FileVanishes(id)

Init == CoordInit /\ HubInit /\ RelayParked /\ ThreadsInit /\ LinkParked /\ LifeInit
Spec == Init /\ [][Next]_vars

\* ---- the coordinator with the recording notifications of its friends
\* network.on_recording_started(friend_id)
PeerRecordingStarted(f) ==
    /\ f \in friends
    /\ mock_mode \/ connected
    /\ Apply(HandleRecordingStarted(Cur, f))
    /\ UNCHANGED <<Config, Net, outside>>

\* network.on_recording_stopped(friend_id)
PeerRecordingStopped(f) ==
    /\ f \in friends
    /\ mock_mode \/ connected
    /\ Apply(HandleRecordingStopped(Cur, f))
    /\ UNCHANGED <<Config, Net, outside>>

NextLed ==
    \/ \E f \in AllFriends : FriendButtonPressed(f)
    \/ \E startOk, yield \in BOOLEAN : RecordButtonPressed(startOk, yield)
    \/ DialogButtonPressed
    \/ \E f \in AllFriends : MessageArrived(f)
    \/ \E f \in AllFriends, id \in {1, MaxMsgs + 1} : MessageHeardAck(f, id)
    \/ \E f \in AllFriends : PeerRecordingStarted(f)
    \/ \E f \in AllFriends : PeerRecordingStopped(f)
    \/ PlaybackTimerFires
    \/ ConversationTimeoutFired
    \/ TransportConnects
    \/ TransportDisconnects
    \/ \E S \in SUBSET AllFriends : FriendsOnline(S)
    \/ \E id \in 1..MaxMsgs : FileVanishes(id)

SpecLed == Init /\ [][NextLed]_vars

\* ------------------------------------------------------ the hub's Spec
\* The hub alone, fed any frame on any open connection.
InitHub == HubInit /\ CoordParked /\ RelayParked /\ ThreadsInit /\ LinkParked /\ LifeInit
nonHub == <<coordVars, relayVars, threadVars, linkVars, lifeVars, playerVars, timerVars>>

NextHub ==
    \/ \E c \in Conns : HubAccept(c) /\ UNCHANGED nonHub
    \/ \E c \in Conns, raw \in HubInputs, raises \in BOOLEAN :
           HubRecv(c, raw, raises) /\ UNCHANGED nonHub
    \/ \E c \in Conns : ConnCloses(c) /\ UNCHANGED nonHub
    \/ \E c \in Conns : HubCleanup(c) /\ UNCHANGED nonHub
    \/ CleanupStaleDevices /\ UNCHANGED nonHub

SpecHub == InitHub /\ [][NextHub]_vars

\* ---- the hub's registry: registrations under two names, while time passes
MaxClock == 2
RegistryNames == {"kitchen", "hall"}

RegistryFrames ==
    { [WireMsg("register") EXCEPT !.device_id = d, !.device_name = n,
                                  !.friends = fl] :
        d \in DeviceIds \cup {None}, n \in RegistryNames, fl \in {<<>>} }

\* datetime.now() moves on
ClockTicks ==
    /\ hub_clock < MaxClock
    /\ hub_clock' = hub_clock + 1
    /\ UNCHANGED <<connected_devices, device_info, device_registry, conn_state,
                   conn_device, hub_sends, devices_file>>

NextRegistry ==
    \/ \E c \in Conns : HubAccept(c) /\ UNCHANGED nonHub
    \/ \E c \in Conns, raw \in RegistryFrames, raises \in BOOLEAN :
           HubRecv(c, raw, raises) /\ UNCHANGED nonHub
    \/ \E c \in Conns : ConnCloses(c) /\ UNCHANGED nonHub
    \/ \E c \in Conns : HubCleanup(c) /\ UNCHANGED nonHub
    \/ CleanupStaleDevices /\ UNCHANGED nonHub
    \/ ClockTicks /\ UNCHANGED nonHub

SpecRegistry == InitHub /\ [][NextRegistry]_vars

\* ---------------------------------------------------- the relay's Spec
\* Two devices, their transports, the hub and the connections between them.
InitRelay == HubInit /\ RelayInit /\ CoordParked /\ ThreadsInit /\ LinkParked /\ LifeInit
nonRelay == <<coordVars, threadVars, linkVars, lifeVars, playerVars, timerVars>>

NextRelay ==
    \/ \E d \in Devices, c \in Conns : RelayConnect(d, c) /\ UNCHANGED nonRelay
    \/ \E d \in Devices, f \in AllFriends, audio \in AudioBytes :
           RelaySend(d, f, audio) /\ UNCHANGED nonRelay
    \/ \E c \in Conns, raises \in BOOLEAN :
           RelayHubRecv(c, raises) /\ UNCHANGED nonRelay
    \/ \E d \in Devices : RelayDeviceRecv(d) /\ UNCHANGED nonRelay
    \/ \E d \in Devices : RelayDisconnect(d) /\ UNCHANGED nonRelay
    \/ \E c \in Conns : RelayConnCloses(c) /\ UNCHANGED nonRelay
    \/ \E c \in Conns : RelayHubCleanup(c) /\ UNCHANGED nonRelay
    \/ CleanupStaleDevices /\ UNCHANGED <<nonRelay, relayVars>>

SpecRelay == InitRelay /\ [][NextRelay]_vars

\* --------------------------------------------- the device's threads' Spec
\* The handlers as the code runs them: each on the thread that delivers its
\* event, with no lock but the one inside set_state.  The hardware thread
\* may be suspended inside _stop_recording_and_send before set_state(IDLE),
\* the transport's thread inside handle_message_received before the branch
\* it has selected; every other handler runs in one piece, on its own thread.
HwIdle == hw_pc = "idle"
NetIdle == net_pc = "idle"

\* hardware thread: a record press in Recording, up to set_state(IDLE)
HwStopRecording(yield) ==
    /\ HwIdle
    /\ state = RECORDING /\ selected_friend # None
    /\ yield => TotalMsgs(messages) < MaxMsgs
    /\ Apply(StopRecordingSend(Cur, yield))
    /\ hw_pc' = "set_idle"
    /\ UNCHANGED <<Config, Net, hubVars, relayVars, linkVars, lifeVars, playerVars, timerVars,
                   net_pc, net_arg>>

\* hardware thread: the rest of _stop_recording_and_send
HwStopFinish ==
    /\ hw_pc = "set_idle"
    /\ Apply(StopRecordingFinish(Cur))
    /\ hw_pc' = "idle"
    /\ UNCHANGED <<Config, Net, hubVars, relayVars, linkVars, lifeVars, playerVars, timerVars,
                   net_pc, net_arg>>

\* transport thread: handle_message_received up to the selected branch
NetMessageArrives(f) ==
    /\ NetIdle
    /\ f \in friends
    /\ mock_mode \/ connected
    /\ TotalMsgs(messages) < MaxMsgs
    /\ LET id == FreshId(Cur)
           message_data == [id |-> id, file |-> id]
           s2 == MessageReceivedInsert([Cur EXCEPT !.files = @ \cup {id}],
                                       f, message_data)
       IN /\ Apply(s2)
          /\ net_pc' = MessageReceivedBranch(s2)
          /\ net_arg' = <<[friend_id |-> f, message_data |-> message_data]>>
    /\ UNCHANGED <<Config, Net, hubVars, relayVars, linkVars, lifeVars, playerVars, timerVars,
                   hw_pc>>

\* transport thread: the selected branch, and the return
NetMessageActs ==
    /\ ~NetIdle
    /\ Apply(UpdateRgbLed(MessageReceivedAct(Cur, net_pc, net_arg[1].friend_id,
                                             net_arg[1].message_data),
                          net_arg[1].friend_id))
    /\ net_pc' = "idle"
    /\ net_arg' = <<>>
    /\ UNCHANGED <<Config, Net, hubVars, relayVars, linkVars, lifeVars, playerVars, timerVars,
                   hw_pc>>

NextThreads ==
    \/ \E f \in AllFriends : HwIdle /\ FriendButtonPressed(f)
    \/ \E startOk \in BOOLEAN :
           /\ HwIdle
           /\ state # RECORDING \/ selected_friend = None
           /\ RecordButtonPressed(startOk, FALSE)
    \/ \E yield \in BOOLEAN : HwStopRecording(yield)
    \/ HwStopFinish
    \/ HwIdle /\ DialogButtonPressed
    \/ \E f \in AllFriends : NetMessageArrives(f)
    \/ NetMessageActs
    \/ \E f \in AllFriends, id \in {1, MaxMsgs + 1} :
           NetIdle /\ MessageHeardAck(f, id)
    \/ PlaybackTimerFires
    \/ ConversationTimeoutFired
    \/ TransportConnects
    \/ TransportDisconnects
    \/ \E S \in SUBSET AllFriends : FriendsOnline(S)
    \/ \E id \in 1..MaxMsgs : FileVanishes(id)

SpecThreads == Init /\ [][NextThreads]_vars

\* ================================================== the end of the process
\* The coordinator up to and after shutdown(): the buttons and the transport
\* are stopped by it, the timers that are still pending afterwards fire.
\* send_message in mock mode: threading.Timer(2.0, self._mock_message_heard)
MockTimersOf(cs) ==
    {[friend_id |-> cs[i].to, message_id |-> cs[i].id] :
        i \in {j \in DOMAIN cs : cs[j].op = "send_message"}}

\* hardware.on_record_button() with the timers its send_message starts
RecordButtonStartsTimers(startOk, yield) ==
    /\ state = RECORDING => startOk
    /\ state # RECORDING => ~yield
    /\ yield => TotalMsgs(messages) < MaxMsgs
    /\ Apply(HandleRecordButton(Cur, startOk, yield))
    /\ mock_timers' = IF mock_mode THEN mock_timers \cup MockTimersOf(calls')
                      ELSE mock_timers
    /\ UNCHANGED <<Config, Net, hubVars, relayVars, threadVars, linkVars,
                   shut_down, playerVars, timerVars>>

\* _mock_message_heard, when its timer expires
MockMessageHeard(t) ==
    /\ t \in mock_timers
    /\ Apply(HandleMessageHeard(Cur, t.friend_id, t.message_id))
    /\ mock_timers' = mock_timers \ {t}
    /\ UNCHANGED <<Config, Net, hubVars, relayVars, threadVars, linkVars,
                   shut_down, playerVars, timerVars>>

\* shutdown
ShutdownOp(s) ==
    LET s1 == CancelConversationTimeout(s)
        s2 == [s1 EXCEPT !.playback_timer = FALSE]
        s3 == Call(Call(s2, HardwareCall("stop", None)), NetCall("stop", None, 0))
    IN [Call(s3, AudioCall("cleanup", 0)) EXCEPT !.audio_recording = FALSE]

\* run() leaves its loop and calls shutdown(); network.stop() sets
\* self.connected = False
Shutdown ==
    /\ ~shut_down
    /\ Apply(ShutdownOp(Cur))
    /\ connected' = FALSE
    /\ shut_down' = TRUE
    /\ UNCHANGED <<Config, online_friends, mock_timers, hubVars, relayVars,
                   threadVars, linkVars, playerVars, timerVars>>

NextShutdown ==
    \/ \E f \in AllFriends : ~shut_down /\ FriendButtonPressed(f)
    \/ \E startOk, yield \in BOOLEAN :
           ~shut_down /\ RecordButtonStartsTimers(startOk, yield)
    \/ ~shut_down /\ DialogButtonPressed
    \/ \E f \in AllFriends : ~shut_down /\ MessageArrived(f)
    \/ \E f \in AllFriends : ~shut_down /\ ~mock_mode /\ MessageHeardAck(f, 1)
    \/ \E t \in mock_timers : MockMessageHeard(t)
    \/ PlaybackTimerFires
    \/ ConversationTimeoutFired
    \/ ~shut_down /\ TransportConnects
    \/ \E S \in SUBSET AllFriends : ~shut_down /\ FriendsOnline(S)
    \/ Shutdown

SpecShutdown == Init /\ [][NextShutdown]_vars

\* ===================================================== the transport's link
\* One WebSocketNetwork outside mock mode: the calls made on it from other
\* threads (start, stop, the four sends), its handler threads and event
\* loops, and the connections it opens.  A step is what one thread does
\* between two points where another thread can see or change the fields.
nonLink == <<coordVars, hubVars, relayVars, threadVars, lifeVars, playerVars, timerVars>>

Started(th) == handler[th].pc # "unstarted"
FreeConns == {k \in LinkConns : link_state[k] = "free"}
OpenConns == {k \in LinkConns : link_state[k] = "open"}

\* start(): self.running = True and a new thread on _run_websocket_loop
Start ==
    /\ \E th \in HandlerThreads :
           /\ ~Started(th)
           /\ \A u \in 1..(th - 1) : Started(u)
           /\ handler' = [handler EXCEPT ![th].pc = "new"]
    /\ running' = TRUE
    /\ UNCHANGED <<net_connected, self_ws, self_loop, scheduled, wire, link_state,
                   reachable, caller_pc, caller_kind, outcome, nonLink>>

\* VoiceMessenger.run(): the one call of start() the device makes
Run ==
    /\ \A th \in HandlerThreads : ~Started(th)
    /\ Start

\* start() called on a transport that is running and connected
StartAgain ==
    /\ running /\ net_connected
    /\ Start

\* stop(): self.running = False; self.connected = False; the close is
\* handed to the loop when there is a connection; the join is bounded in
\* time and changes nothing
Stop ==
    /\ running
    /\ running' = FALSE
    /\ net_connected' = FALSE
    /\ scheduled' = IF self_ws # 0 /\ self_loop # 0
                    THEN Append(scheduled, [loop |-> self_loop, ws |-> 0, kind |-> "close"])
                    ELSE scheduled
    /\ UNCHANGED <<self_ws, self_loop, handler, wire, link_state, reachable, caller_pc,
                   caller_kind, outcome, nonLink>>

\* _run_websocket_loop: self.loop = asyncio.new_event_loop()
RunWebsocketLoop(th) ==
    /\ handler[th].pc = "new"
    /\ self_loop' = th
    /\ handler' = [handler EXCEPT ![th].pc = "while"]
    /\ UNCHANGED <<running, net_connected, self_ws, scheduled, wire, link_state,
                   reachable, caller_pc, caller_kind, outcome, nonLink>>

\* _websocket_handler: while self.running
HandlerWhile(th) ==
    /\ handler[th].pc = "while"
    /\ handler' = [handler EXCEPT ![th].pc = IF running THEN "connect" ELSE "done"]
    /\ UNCHANGED <<running, net_connected, self_ws, self_loop, scheduled, wire,
                   link_state, reachable, caller_pc, caller_kind, outcome,
                   nonLink>>

\* websockets.connect(...) returns a connection or raises
HandlerConnect(th) ==
    /\ handler[th].pc = "connect"
    /\ IF reachable /\ FreeConns # {}
       THEN LET k == CHOOSE c \in FreeConns : \A o \in FreeConns : c <= o IN
            /\ link_state' = [link_state EXCEPT ![k] = "open"]
            /\ handler' = [handler EXCEPT ![th] = [pc |-> "set_ws", ws |-> k]]
       ELSE /\ ~reachable
            /\ handler' = [handler EXCEPT ![th].pc = "cleanup"]
            /\ UNCHANGED link_state
    /\ UNCHANGED <<running, net_connected, self_ws, self_loop, scheduled, wire,
                   reachable, caller_pc, caller_kind, outcome, nonLink>>

\* self.ws = ws
HandlerSetWs(th) ==
    /\ handler[th].pc = "set_ws"
    /\ self_ws' = handler[th].ws
    /\ handler' = [handler EXCEPT ![th].pc = "set_connected"]
    /\ UNCHANGED <<running, net_connected, self_loop, scheduled, wire, link_state,
                   reachable, caller_pc, caller_kind, outcome, nonLink>>

\* self.connected = True
HandlerSetConnected(th) ==
    /\ handler[th].pc = "set_connected"
    /\ net_connected' = TRUE
    /\ handler' = [handler EXCEPT ![th].pc = "register"]
    /\ UNCHANGED <<running, self_ws, self_loop, scheduled, wire, link_state, reachable,
                   caller_pc, caller_kind, outcome, nonLink>>

\* leaving the "async with" block closes the handler's connection
CloseOwn(th) ==
    IF handler[th].ws = 0 THEN link_state
    ELSE [link_state EXCEPT ![handler[th].ws] = "closed"]

\* await self._register(): self.ws.send(register); the frame is written
\* before the send first suspends.  self.ws is read again here: None or a
\* closed connection raises, which ends the block.
HandlerRegister(th) ==
    /\ handler[th].pc = "register"
    /\ IF self_ws # 0 /\ link_state[self_ws] = "open"
       THEN /\ wire' = [wire EXCEPT ![self_ws] = Append(@, "register")]
            /\ handler' = [handler EXCEPT ![th].pc = "listen"]
            /\ UNCHANGED link_state
       ELSE /\ handler' = [handler EXCEPT ![th].pc = "cleanup"]
            /\ link_state' = CloseOwn(th)
            /\ UNCHANGED wire
    /\ UNCHANGED <<running, net_connected, self_ws, self_loop, scheduled, reachable,
                   caller_pc, caller_kind, outcome, nonLink>>

\* async for message in ws: a message arrives after stop() ("break")
HandlerBreak(th) ==
    /\ handler[th].pc = "listen"
    /\ link_state[handler[th].ws] = "open"
    /\ ~running
    /\ handler' = [handler EXCEPT ![th].pc = "cleanup"]
    /\ link_state' = CloseOwn(th)
    /\ UNCHANGED <<running, net_connected, self_ws, self_loop, scheduled, wire,
                   reachable, caller_pc, caller_kind, outcome, nonLink>>

\* async for message in ws: the connection has closed (ConnectionClosed or
\* the end of the iteration)
HandlerClosed(th) ==
    /\ handler[th].pc = "listen"
    /\ link_state[handler[th].ws] = "closed"
    /\ handler' = [handler EXCEPT ![th].pc = "cleanup"]
    /\ UNCHANGED <<running, net_connected, self_ws, self_loop, scheduled, wire,
                   link_state, reachable, caller_pc, caller_kind, outcome,
                   nonLink>>

\* self.connected = False
HandlerCleanup(th) ==
    /\ handler[th].pc = "cleanup"
    /\ net_connected' = FALSE
    /\ handler' = [handler EXCEPT ![th].pc = "clear_ws"]
    /\ UNCHANGED <<running, self_ws, self_loop, scheduled, wire, link_state, reachable,
                   caller_pc, caller_kind, outcome, nonLink>>

\* self.ws = None; if self.running: await asyncio.sleep(RECONNECT_DELAY)
HandlerClearWs(th) ==
    /\ handler[th].pc = "clear_ws"
    /\ self_ws' = 0
    /\ handler' = [handler EXCEPT ![th] =
                      [pc |-> IF running THEN "sleep" ELSE "while", ws |-> 0]]
    /\ UNCHANGED <<running, net_connected, self_loop, scheduled, wire, link_state,
                   reachable, caller_pc, caller_kind, outcome, nonLink>>

\* the reconnect delay is over
HandlerWake(th) ==
    /\ handler[th].pc = "sleep"
    /\ handler' = [handler EXCEPT ![th].pc = "while"]
    /\ UNCHANGED <<running, net_connected, self_ws, self_loop, scheduled, wire,
                   link_state, reachable, caller_pc, caller_kind, outcome,
                   nonLink>>

\* A loop runs what was handed to it only while its handler is suspended in
\* an await: in connect, in the iteration over the connection, in the sleep.
Suspended_Always(th) == handler[th].pc # "done"
Suspended(th) == handler[th].pc \in {"connect", "listen", "sleep"}

FirstFor(th) ==
    CHOOSE i \in DOMAIN scheduled :
        /\ scheduled[i].loop = th
        /\ \A j \in 1..(i - 1) : scheduled[j].loop # th

Without(seq, i) == [j \in 1..(Len(seq) - 1) |-> IF j < i THEN seq[j] ELSE seq[j + 1]]

\* the loop of thread th runs the first coroutine handed to it: a send
\* writes on the connection it was created for, or fails in a future nobody
\* reads; _close_websocket closes self.ws as it is now
LoopRuns(th) ==
    /\ Suspended(th)
    /\ \E i \in DOMAIN scheduled : scheduled[i].loop = th
    /\ LET i == FirstFor(th)
           e == scheduled[i] IN
       /\ scheduled' = Without(scheduled, i)
       /\ IF e.kind = "close"
          THEN /\ link_state' = IF self_ws = 0 THEN link_state
                                ELSE [link_state EXCEPT ![self_ws] = "closed"]
               /\ UNCHANGED wire
          ELSE /\ wire' = IF link_state[e.ws] = "open"
                          THEN [wire EXCEPT ![e.ws] = Append(@, e.kind)]
                          ELSE wire
               /\ UNCHANGED link_state
    /\ UNCHANGED <<running, net_connected, self_ws, self_loop, handler, reachable,
                   caller_pc, caller_kind, outcome, nonLink>>

\* send_message, notify_message_heard, send_recording_started / _stopped up
\* to "if not self.connected: return"
SendChecks(kind) ==
    /\ caller_pc = "idle"
    /\ Len(scheduled) < MaxScheduled
    /\ \A k \in LinkConns : Len(wire[k]) < MaxFrames
    /\ IF net_connected
       THEN /\ caller_pc' = "checked"
            /\ caller_kind' = kind
            /\ outcome' = NoOutcome
       ELSE /\ outcome' = [kind |-> kind, fate |-> "dropped",
                           returned |-> None, raised |-> FALSE]
            /\ UNCHANGED <<caller_pc, caller_kind>>
    /\ UNCHANGED <<running, net_connected, self_ws, self_loop, handler, scheduled, wire,
                   link_state, reachable, nonLink>>

\* asyncio.run_coroutine_threadsafe(self.ws.send(...), self.loop): self.ws
\* None or a closed loop raises inside the try, the except prints
SendSchedules ==
    /\ caller_pc = "checked"
    /\ IF self_ws # 0 /\ self_loop # 0 /\ handler[self_loop].pc # "done"
       THEN /\ scheduled' = Append(scheduled, [loop |-> self_loop, ws |-> self_ws,
                                               kind |-> caller_kind])
            /\ outcome' = [kind |-> caller_kind, fate |-> "handed",
                           returned |-> None, raised |-> FALSE]
       ELSE /\ outcome' = [kind |-> caller_kind, fate |-> "dropped",
                           returned |-> None, raised |-> FALSE]
            /\ UNCHANGED scheduled
    /\ caller_pc' = "idle"
    /\ caller_kind' = None
    /\ UNCHANGED <<running, net_connected, self_ws, self_loop, handler, wire,
                   link_state, reachable, nonLink>>

\* the network or the hub closes an open connection (as often as there are
\* connections left to reconnect with)
ConnectionDrops(k) ==
    /\ link_state[k] = "open"
    /\ FreeConns # {}
    /\ link_state' = [link_state EXCEPT ![k] = "closed"]
    /\ UNCHANGED <<running, net_connected, self_ws, self_loop, handler, scheduled, wire,
                   reachable, caller_pc, caller_kind, outcome, nonLink>>

\* the hub becomes reachable or unreachable
HubReachability ==
    /\ reachable' = ~reachable
    /\ UNCHANGED <<running, net_connected, self_ws, self_loop, handler, scheduled, wire,
                   link_state, caller_pc, caller_kind, outcome, nonLink>>

InitLink == LinkInit /\ CoordParked /\ HubInit /\ RelayParked /\ ThreadsInit /\ LifeInit

\* the transport as the device uses it: started once by run()
NextLink ==
    \/ Run
    \/ Stop
    \/ \E th \in HandlerThreads : RunWebsocketLoop(th)
    \/ \E th \in HandlerThreads : HandlerWhile(th)
    \/ \E th \in HandlerThreads : HandlerConnect(th)
    \/ \E th \in HandlerThreads : HandlerSetWs(th)
    \/ \E th \in HandlerThreads : HandlerSetConnected(th)
    \/ \E th \in HandlerThreads : HandlerRegister(th)
    \/ \E th \in HandlerThreads : HandlerBreak(th)
    \/ \E th \in HandlerThreads : HandlerClosed(th)
    \/ \E th \in HandlerThreads : HandlerCleanup(th)
    \/ \E th \in HandlerThreads : HandlerClearWs(th)
    \/ \E th \in HandlerThreads : HandlerWake(th)
    \/ \E th \in HandlerThreads : LoopRuns(th)
    \/ \E kind \in SendKinds : SendChecks(kind)
    \/ SendSchedules
    \/ \E k \in LinkConns : ConnectionDrops(k)
    \/ HubReachability

SpecLink == InitLink /\ [][NextLink]_vars

\* the transport as its interface allows it to be used: start() at any
\* time; nothing is sent through it
NextLinkApi ==
    \/ Run
    \/ StartAgain
    \/ Stop
    \/ \E th \in HandlerThreads : RunWebsocketLoop(th)
    \/ \E th \in HandlerThreads : HandlerWhile(th)
    \/ \E th \in HandlerThreads : HandlerConnect(th)
    \/ \E th \in HandlerThreads : HandlerSetWs(th)
    \/ \E th \in HandlerThreads : HandlerSetConnected(th)
    \/ \E th \in HandlerThreads : HandlerRegister(th)
    \/ \E th \in HandlerThreads : HandlerBreak(th)
    \/ \E th \in HandlerThreads : HandlerClosed(th)
    \/ \E th \in HandlerThreads : HandlerCleanup(th)
    \/ \E th \in HandlerThreads : HandlerClearWs(th)
    \/ \E th \in HandlerThreads : HandlerWake(th)
    \/ \E th \in HandlerThreads : LoopRuns(th)
    \/ \E k \in LinkConns : ConnectionDrops(k)
    \/ HubReachability

SpecLinkApi == InitLink /\ [][NextLinkApi]_vars

\* The handler thread and its loop keep running: the scheduler gives every
\* thread its turn, the reconnect delay and a connection attempt end.
HandlerStep(th) ==
    \/ RunWebsocketLoop(th)
    \/ HandlerWhile(th)
    \/ HandlerConnect(th)
    \/ HandlerSetWs(th)
    \/ HandlerSetConnected(th)
    \/ HandlerRegister(th)
    \/ HandlerClosed(th)
    \/ HandlerCleanup(th)
    \/ HandlerClearWs(th)
    \/ HandlerWake(th)

SpecLinkFair == SpecLink /\ \A th \in HandlerThreads : WF_vars(HandlerStep(th))

\* =================================================================== claims
CallIdx(cs, op) == {i \in DOMAIN cs : cs[i].op = op}
CallsTo(cs, op, f) == {i \in DOMAIN cs : cs[i].op = op /\ cs[i].to = f}
Ids(seq) == [i \in DOMAIN seq |-> seq[i].id]

FriendAct == \E f \in AllFriends : FriendButtonPressed(f)
RecordAct == \E startOk, yield \in BOOLEAN : RecordButtonPressed(startOk, yield)
ArrivedAct == \E f \in AllFriends : MessageArrived(f)

\* C1 -- The coordinator is always in exactly one of Idle, Recording,
\* Playing; capture is active only in Recording and a playback is in
\* progress (cursor set, playback timer pending) only in Playing, so capture
\* and playback are never active at the same time.
C1_StateExclusive ==
    /\ state \in State
    /\ audio_recording => state = RECORDING
    /\ playback_timer => state = PLAYING
    /\ playback_friend # None => state = PLAYING
    /\ ~(audio_recording /\ (playback_timer \/ playback_friend # None))

\* A recording was made and sent by button presses, and a press of the
\* friend button now has the device playing that conversation.
C1_Witness ==
    /\ state = PLAYING /\ playback_timer /\ ~audio_recording
    /\ messages[playback_friend][playback_index + 1].direction = "sent"
    /\ CallIdx(calls, "play_message") # {}

\* What RecordButtonPressed in Recording does whatever the pending item:
\* capture stopped, recording_stopped handed to the transport once and
\* first; with audio one Sent entry at index 0 of the selected friend,
\* SentStatus true and one send_message for that friend; without audio no
\* entry, SentStatus unchanged and no send_message.
C3_Effects ==
    LET f == selected_friend
        file == calls'[2].id
    IN
    /\ ~audio_recording'
    /\ CallIdx(calls', "recording_stopped") = {1}
    /\ calls'[1].to = f
    /\ CallIdx(calls', "stop_recording") = {2}
    /\ pending_autoplay' = NoPending
    /\ IF file # 0
       THEN /\ Len(messages'[f]) = Len(messages[f]) + 1
            /\ messages'[f][1] = [id |-> file, file |-> file, heard |-> TRUE,
                                  direction |-> "sent"]
            /\ Tail(messages'[f]) = messages[f]
            /\ \A g \in friends \ {f} : Ids(messages'[g]) = Ids(messages[g])
            /\ message_sent_status' = [message_sent_status EXCEPT ![f] = TRUE]
            /\ Cardinality(CallIdx(calls', "send_message")) = 1
            /\ Cardinality(CallsTo(calls', "send_message", f)) = 1
       ELSE /\ \A g \in friends : Ids(messages'[g]) = Ids(messages[g])
            /\ message_sent_status' = message_sent_status
            /\ CallIdx(calls', "send_message") = {}

RecordStops == state = RECORDING /\ RecordAct

PresenceOnline(f) == mock_mode \/ (connected /\ f \in online_friends)

\* C4 -- RecordButtonPressed in Idle: with no friend selected or a selected
\* friend whose presence is not Online nothing changes (state Idle, no
\* capture, nothing handed to the transport; the only call is the error
\* flash for a selected friend); with presence Online the state becomes
\* Recording, recording_started goes to that friend and then capture is
\* started.
C4_RecordInIdle ==
    [][state = IDLE /\ RecordAct =>
         IF selected_friend # None /\ PresenceOnline(selected_friend)
         THEN /\ state' = RECORDING
              /\ selected_friend' = selected_friend
              /\ Len(calls') = 2
              /\ calls'[1] = [op |-> "recording_started", to |-> selected_friend,
                              id |-> 0, wire |-> ~mock_mode]
              /\ calls'[2].op = "start_recording"
         ELSE /\ state' = IDLE
              /\ ~audio_recording'
              /\ calls' = IF selected_friend = None THEN <<>>
                          ELSE <<HardwareCall("flash_all_red", None)>>
              /\ UNCHANGED Coord]_vars

\* Record was pressed in Idle for a friend last reported online, after the
\* connection was lost: refused with the error flash.
C4_Witness ==
    /\ CallIdx(calls, "flash_all_red") # {}
    /\ state = IDLE /\ ~audio_recording
    /\ ~mock_mode /\ ~connected /\ selected_friend \in online_friends

\* C5 -- MessageArrived(f, m) in Idle with conversation_mode on: f becomes
\* the selected friend and the coordinator is Playing with the cursor on m
\* (friend f, index 0), m being the message handed to the player and marked
\* heard.
C5_AutoPlay ==
    [][\A f \in AllFriends :
         state = IDLE /\ conversation_mode /\ MessageArrived(f) =>
           LET m == TotalMsgs(messages) + 1
           IN /\ selected_friend' = f
              /\ state' = PLAYING
              /\ playback_friend' = f /\ playback_index' = 0
              /\ messages'[f][1].id = m /\ messages'[f][1].heard
              /\ \E i \in DOMAIN calls' :
                    calls'[i].op = "play_message" /\ calls'[i].id = m]_vars

\* A message from a friend that was not selected has just arrived in
\* conversation mode: its sender was selected and it is being played.
C5_Witness ==
    /\ Len(calls) = 3
    /\ calls[1].op = "set_yellow_led"
    /\ calls[2].op = "message_heard"
    /\ calls[3].op = "play_message"
    /\ state = PLAYING /\ conversation_mode
    /\ selected_friend = calls[1].to /\ playback_friend = calls[1].to
    /\ Len(messages[playback_friend]) = 2
    /\ messages[playback_friend][1].id = calls[3].id

\* C6 -- RecordButtonPressed stopping a recording while m2 is
\* pending_autoplay (its file present): the coordinator is Playing with the
\* cursor on m2, which is marked heard.
C6_PendingPlayed ==
    [][/\ RecordStops
       /\ pending_autoplay # NoPending
       /\ pending_autoplay[1].message_data.file \in files
       => LET p == pending_autoplay[1]
          IN /\ state' = PLAYING
             /\ playback_friend' = p.friend_id
             /\ messages'[p.friend_id][playback_index' + 1].id = p.message_data.id
             /\ messages'[p.friend_id][playback_index' + 1].heard]_vars

\* C7 -- A Received message's heard flag never goes back to false, and it
\* becomes true only for the message at the playback cursor of a coordinator
\* that is Playing.
C7_HeardAtCursor ==
    [][\A f \in friends : messages'[f] # messages[f] =>
       \A j \in DOMAIN messages'[f] :
         LET m == messages'[f][j]
             old == {i \in DOMAIN messages[f] : messages[f][i].id = m.id}
         IN /\ (\E i \in old : messages[f][i].heard) => m.heard
            /\ (m.direction = "received" /\ m.heard
                  /\ \A i \in old : ~messages[f][i].heard)
               => /\ state' = PLAYING
                  /\ playback_friend' = f
                  /\ playback_index' = j - 1]_vars

\* An unheard message that is not the newest was reached by navigation and
\* marked heard there, with the heard-ack handed to the transport.
C7_Witness ==
    /\ state = PLAYING /\ playback_index = 1
    /\ messages[playback_friend][2].direction = "received"
    /\ messages[playback_friend][2].heard
    /\ \E i \in DOMAIN calls :
          /\ calls[i].op = "message_heard"
          /\ calls[i].id = messages[playback_friend][2].id

OffNetThread ==
    \/ \E f \in AllFriends : FriendButtonPressed(f)
    \/ \E startOk \in BOOLEAN : RecordButtonPressed(startOk, FALSE)
    \/ \E yield \in BOOLEAN : HwStopRecording(yield)
    \/ HwStopFinish
    \/ DialogButtonPressed
    \/ PlaybackTimerFires
    \/ ConversationTimeoutFired

\* steps of handlers that run on a thread other than the hardware's
OffHwThread ==
    \/ \E f \in AllFriends : NetMessageArrives(f)
    \/ NetMessageActs
    \/ \E f \in AllFriends, id \in {1, MaxMsgs + 1} : MessageHeardAck(f, id)
    \/ PlaybackTimerFires
    \/ ConversationTimeoutFired

\* C2: the coordinator's handlers never interleave: from the first to the
\* last access a handler makes to the coordinator's fields, no handler on
\* another thread takes a step.  Violated: the handlers run on the threads
\* that deliver their events and nothing serializes them.
C2_HandlersNeverInterleave ==
    [][ /\ ~NetIdle => ~OffNetThread
        /\ ~HwIdle => ~OffHwThread ]_vars

\* ---- C10
WellFormed(raw) ==
    raw.recipient_id # None /\ raw.message_id # 0 /\ raw.audio_data # <<>>

\* the frame's connection is the one registered under its device id
RegisteredOn(c) ==
    /\ conn_device[c] \in Keys(connected_devices)
    /\ Get(connected_devices, conn_device[c]) = c

VoiceToAbsent(c, raw, raises) ==
    /\ raw.type = "voice_message"
    /\ raw.recipient_id \notin Keys(connected_devices)
    /\ HubRecv(c, raw, raises)

\* the handler's only send is recipient_offline, to the sending connection,
\* with the frame's ids, and the hub keeps nothing of the frame
OfflineReplied(c, raw) ==
    /\ hub_sends' = << [to |-> c,
                        msg |-> [WireMsg("recipient_offline")
                                   EXCEPT !.recipient_id = raw.recipient_id,
                                          !.message_id = raw.message_id]] >>
    /\ UNCHANGED <<connected_devices, device_info, device_registry>>

\* every voice_message the hub sends is the frame it is handling in that
\* step, sent to the connection its recipient is registered under
ForwardsOnlyNow ==
    \A i \in DOMAIN hub_sends' :
        hub_sends'[i].msg.type = "voice_message" =>
            \E c \in Conns, raw \in VoiceFrames, raises \in BOOLEAN :
                /\ raw.recipient_id \in Keys(connected_devices)
                /\ hub_sends'[i].to = Get(connected_devices, raw.recipient_id)
                /\ hub_sends'[i].msg.message_id = raw.message_id
                /\ hub_sends'[i].msg.audio_data = raw.audio_data
                /\ HubRecv(c, raw, raises)

SendEncodes(minLen) ==
    \A d \in Devices, f \in AllFriends, audio \in AudioBytes :
        (t_conn[d] # 0 /\ Len(audio) >= minLen /\ RelaySend(d, f, audio)) =>
            \E frame \in {VoiceFrame(t_friends[d][f], TotalSent + 1, audio)} :
                /\ c2h'[t_conn[d]] = Append(c2h[t_conn[d]], frame)
                /\ B64Decode(frame.audio_data) = [ok |-> TRUE, bytes |-> audio]
                /\ sent_messages'[d][Len(sent_messages'[d])].message_id
                       = frame.message_id

\* the recipient of the frame is in the hub's table, under the connection
\* its device is reading
RecipientConnected(frame) ==
    /\ frame.recipient_id \in Keys(connected_devices)
    /\ Accepts(Get(connected_devices, frame.recipient_id))
    /\ t_conn[frame.recipient_id] = Get(connected_devices, frame.recipient_id)

\* the hub passes a voice_message of a registered sender on to a connected
\* recipient that lists the sender as a friend: exactly one frame, with the sender's id and the same
\* message_id and text
HubForwards(minLen) ==
    \A c \in Conns, raises \in BOOLEAN :
        ( /\ c2h[c] # <<>>
          /\ Head(c2h[c]).type = "voice_message"
          /\ conn_device[c] # None
          /\ RecipientConnected(Head(c2h[c]))
          /\ GetFriendIdByDeviceId(t_friends[Head(c2h[c]).recipient_id],
                                   conn_device[c]) # None
          /\ Len(B64Decode(Head(c2h[c]).audio_data).bytes) >= minLen
          /\ RelayHubRecv(c, raises) ) =>
            LET frame == Head(c2h[c])
                cr == Get(connected_devices, frame.recipient_id)
            IN h2c'[cr] = Append(h2c[cr],
                                 [WireMsg("voice_message")
                                    EXCEPT !.sender_id = conn_device[c],
                                           !.message_id = frame.message_id,
                                           !.audio_data = frame.audio_data,
                                           !.timestamp = frame.timestamp])

\* the receiving transport turns a voice_message of a listed friend into
\* exactly one on_message_received call, for that friend, with the frame's
\* message_id and a file holding the decoded bytes
RecipientReceives ==
    \A d \in Devices :
        ( /\ RelayDeviceRecv(d)
          /\ Head(h2c[t_conn[d]]).type = "voice_message"
          /\ GetFriendIdByDeviceId(t_friends[d],
                                   Head(h2c[t_conn[d]]).sender_id) # None ) =>
            LET frame == Head(h2c[t_conn[d]])
            IN /\ Len(events'[d]) = Len(events[d]) + 1
               /\ SubSeq(events'[d], 1, Len(events[d])) = events[d]
               /\ LET e == events'[d][Len(events'[d])]
                  IN /\ e.kind = "message_received"
                     /\ t_friends[d][e.friend_id] = frame.sender_id
                     /\ e.id = frame.message_id
                     /\ audio_files'[d][e.file]
                            = B64Decode(frame.audio_data).bytes

\* every on_message_received call is for a message some device sent to this
\* one, names that device as the friend, carries its message_id and a file
\* with the very bytes sent; no message is handed over twice
EventsMatchSends ==
    \A r \in Devices : \A i \in DOMAIN events[r] :
        events[r][i].kind = "message_received" =>
            /\ \E s \in Devices : \E j \in DOMAIN sent_messages[s] :
                  /\ sent_messages[s][j].message_id = events[r][i].id
                  /\ t_friends[s][sent_messages[s][j].friend_id] = r
                  /\ t_friends[r][events[r][i].friend_id] = s
                  /\ audio_files[r][events[r][i].file] = sent_messages[s][j].audio
            /\ \A k \in DOMAIN events[r] :
                  (events[r][k].kind = "message_received"
                   /\ events[r][k].id = events[r][i].id) => k = i

ForwardOf(raw, sender_id) ==
    [WireMsg("voice_message") EXCEPT !.sender_id = sender_id,
                                     !.message_id = raw.message_id,
                                     !.audio_data = raw.audio_data,
                                     !.timestamp = raw.timestamp]

DeliveredOf(raw) ==
    [WireMsg("message_delivered") EXCEPT !.recipient_id = raw.recipient_id,
                                         !.message_id = raw.message_id]

\* replies to connection c among the frames just sent
RepliesTo(c) ==
    {i \in DOMAIN hub_sends' :
        /\ hub_sends'[i].to = c
        /\ hub_sends'[i].msg.type \in {"message_delivered", "recipient_offline"}}

\* the recipient's table entry is a connection that is still open
RecipientOpen(raw) ==
    /\ raw.recipient_id \in Keys(connected_devices)
    /\ Accepts(Get(connected_devices, raw.recipient_id))

\* forward, then the confirmation, and nothing else
ForwardedThenDelivered(c, raw) ==
    hub_sends' = << [to |-> Get(connected_devices, raw.recipient_id),
                     msg |-> ForwardOf(raw, conn_device[c])],
                    [to |-> c, msg |-> DeliveredOf(raw)] >>

\* a message_delivered just sent comes right after the forward of the same
\* message
DeliveredAfterForward ==
    \A i \in DOMAIN hub_sends' :
        hub_sends'[i].msg.type = "message_delivered" =>
            /\ i > 1
            /\ hub_sends'[i - 1].msg.type = "voice_message"
            /\ hub_sends'[i - 1].msg.message_id = hub_sends'[i].msg.message_id

Snapshot(raw) ==
    SelectSeq(raw.friends,
              LAMBDA fid : fid \in Keys(connected_devices) \cup {raw.device_id})

SendsOfType(type) == {i \in DOMAIN hub_sends' : hub_sends'[i].msg.type = type}

\* the confirmation is the first frame, to the registering connection, and
\* friend_online frames name X and go to connections of other devices,
\* after the first 'own' frames
RegisteredThenNotify(c, raw, own) ==
    /\ Len(hub_sends') >= own
    /\ hub_sends'[1] = [to |-> c, msg |-> [WireMsg("registered")
                                            EXCEPT !.device_id = raw.device_id]]
    /\ SendsOfType("registered") = {1}
    /\ \A i \in DOMAIN hub_sends' :
          i > own => /\ hub_sends'[i].msg.type = "friend_online"
                     /\ hub_sends'[i].msg.friend_id = raw.device_id
                     /\ \E j \in DOMAIN connected_devices :
                           /\ connected_devices[j].id # raw.device_id
                           /\ connected_devices[j].ws = hub_sends'[i].to

SnapshotSecond(c, raw) ==
    /\ Len(hub_sends') >= 2
    /\ hub_sends'[2] = [to |-> c, msg |-> [WireMsg("friends_online")
                                            EXCEPT !.friends = Snapshot(raw)]]
    /\ SendsOfType("friends_online") = {2}

\* Scenario F, the step in which B registers: A alone is connected, on an
\* open connection, registered with friends [B]; B registers with [A]
ScenarioF(c, raw) ==
    ( /\ raw.device_id = "B" /\ raw.friends = <<"A">>
      /\ Keys(connected_devices) = {"A"}
      /\ Accepts(Get(connected_devices, "A"))
      /\ "A" \in DOMAIN device_info /\ device_info["A"].friends = <<"B">> ) =>
        hub_sends' =
          << [to |-> c, msg |-> [WireMsg("registered") EXCEPT !.device_id = "B"]],
             [to |-> c, msg |-> [WireMsg("friends_online")
                                   EXCEPT !.friends = <<"A">>]],
             [to |-> Get(connected_devices, "A"),
              msg |-> [WireMsg("friend_online") EXCEPT !.friend_id = "B"]] >>

\* what a step that handles the register frame 'raw' on c leaves behind
\* (tested before the step itself, which is costly to evaluate)
RegistersAs(c, raw) ==
    /\ raw.device_id # None
    /\ conn_state[c] = "open"
    /\ conn_device'[c] = raw.device_id
    /\ raw.device_id \in DOMAIN device_info'
    /\ device_info'[raw.device_id].friends = raw.friends

PresenceTo(X, type) ==
    LET told == SelectSeq(connected_devices',
                   LAMBDA e : /\ e.id # X
                              /\ e.id \in DOMAIN device_info'
                              /\ InSeq(X, device_info'[e.id].friends)
                              /\ Accepts(e.ws))
    IN [i \in DOMAIN told |->
          [to |-> told[i].ws, msg |-> [WireMsg(type) EXCEPT !.friend_id = X]]]

PresenceSent(type) == SelectSeq(hub_sends', LAMBDA s : s.msg.type = type)

\* the step removes X from the table because connection c has closed
ClosesAs(c, X) ==
    /\ conn_device[c] = X
    /\ X \in Keys(connected_devices)
    /\ HubCleanup(c)

\* C13 -- When X registers, friend_online(X) goes to exactly the connected
\* devices Y # X whose registered friend list contains X; when X's
\* connection has closed and X is removed from the table, friend_offline(X)
\* goes to exactly those; whether X lists Y plays no part, and no other
\* step sends a presence frame.
C13_Directional ==
    [][ /\ \A c \in Conns, raw \in RegisterFrames, raises \in BOOLEAN :
              (RegistersAs(c, raw) /\ HubRecv(c, raw, raises)) =>
                  /\ PresenceSent("friend_online")
                         = PresenceTo(raw.device_id, "friend_online")
                  /\ PresenceSent("friend_offline") = <<>>
        /\ \A c \in Conns, X \in DeviceIds :
              ClosesAs(c, X) => hub_sends' = PresenceTo(X, "friend_offline")
        /\ PresenceSent("friend_online") # <<>> =>
              \E c \in Conns, raw \in RegisterFrames, raises \in BOOLEAN :
                 RegistersAs(c, raw) /\ HubRecv(c, raw, raises)
        /\ PresenceSent("friend_offline") # <<>> =>
              \E c \in Conns, X \in DeviceIds : ClosesAs(c, X) ]_vars

\* B, which lists nobody, has just gone offline: A, which lists B, was
\* told; and before that A's registration was not announced to B
C13_Witness ==
    /\ Len(hub_sends) = 1
    /\ hub_sends[1].msg.type = "friend_offline"
    /\ hub_sends[1].msg.friend_id = "B"
    /\ "A" \in Keys(connected_devices)
    /\ hub_sends[1].to = Get(connected_devices, "A")
    /\ device_info["A"].friends = <<"B">>
    /\ "B" \in DOMAIN device_info /\ device_info["B"].friends = <<>>


\* the transport is Connected and the register message went out on the
\* connection it holds
Registered ==
    /\ net_connected
    /\ self_ws # 0
    /\ link_state[self_ws] = "open"
    /\ \E i \in DOMAIN wire[self_ws] : wire[self_ws][i] = "register"

\* C14, the part about retrying -- a transport that stays running, with a hub
\* that stays reachable from some point on, is Connected with its register
\* message sent again and again, whatever failed attempts and drops came
\* before.
C14_Reconnects == <>[](running /\ reachable) => []<>Registered

\* C14, the part about one connection, as the device uses the transport
\* (one start): the transport never holds two open connections.
C14_OneConnectionPerStart == \A j, k \in OpenConns : j = k

\* C14 -- While the transport is running it never gives up and reconnects
\* after every failure or drop; start on a transport that is already
\* connected opens no second connection: a transport never has two open
\* connections.
C14_NoSecondConnection == Cardinality(OpenConns) <= 1

RegistersOn(k) == {i \in DOMAIN wire[k] : wire[k][i] = "register"}

\* C15 -- On every connection the first frame transmitted is the register
\* message and it is transmitted once: whatever the other threads hand to
\* the transport while the connection is being set up goes out after it, and
\* a connection whose handler listens for messages carries its register.
C15_RegisterFirst ==
    /\ \A k \in LinkConns : wire[k] # <<>> => RegistersOn(k) = {1}
    /\ \A th \in HandlerThreads :
           handler[th].pc = "listen" => RegistersOn(handler[th].ws) = {1}

\* a send of another thread is waiting on the loop for a connection whose
\* register message has not been written yet
C15_Witness ==
    \E th \in HandlerThreads, i \in DOMAIN scheduled :
        /\ handler[th].pc = "register"
        /\ scheduled[i].kind \in SendKinds
        /\ scheduled[i].ws = handler[th].ws
        /\ wire[handler[th].ws] = <<>>

\* what the caller of a send gets when the send was handed to the connection
HandedResult == <<None, FALSE>>

\* C16, the part about queueing -- a send that finds the transport not
\* connected leaves nothing behind: nothing is handed to the loop for a later
\* connection, nothing is written, the call is over.
C16_NotQueued ==
    [][\A kind \in SendKinds :
           ~net_connected /\ SendChecks(kind)
               => /\ scheduled' = scheduled
                  /\ wire' = wire
                  /\ caller_pc' = "idle"
                  /\ outcome'.fate = "dropped"]_vars

\* C16 -- A send attempted while the transport is not connected is not
\* queued and is surfaced to the coordinator as an error: what the caller
\* gets back from a send that was dropped locally (its return value, an
\* exception) differs from what it gets from a send handed to the
\* connection.
C16_DropSurfaced ==
    outcome.fate = "dropped" => <<outcome.returned, outcome.raised>> # HandedResult

\* the next frame device d reads is a presence notification of this type
\* about one of its friends
NextPresence(d, type) ==
    /\ t_conn[d] # 0
    /\ h2c[t_conn[d]] # <<>>
    /\ Head(h2c[t_conn[d]]).type = type
    /\ GetFriendIdByDeviceId(t_friends[d], Head(h2c[t_conn[d]]).friend_id) # None

AboutFriend(d) == GetFriendIdByDeviceId(t_friends[d], Head(h2c[t_conn[d]]).friend_id)

\* get_peer_status of device d for its friend f, after the step
ShowsAfter(d, f) ==
    IF t_conn'[d] = 0 THEN "disconnected"
    ELSE IF f \in t_online'[d] THEN "online"
    ELSE "offline"

\* C17 -- The presence a device shows for a friend X follows the hub's
\* notifications: once the device has read friend_online(X) it shows X as
\* online, once it has read friend_offline(X) it shows X as offline.
C17_FollowsPresence ==
    [][\A d \in Devices :
           /\ NextPresence(d, "friend_online") /\ RelayDeviceRecv(d)
                  => ShowsAfter(d, AboutFriend(d)) = "online"
           /\ NextPresence(d, "friend_offline") /\ RelayDeviceRecv(d)
                  => ShowsAfter(d, AboutFriend(d)) = "offline"]_vars

\* C17 for the snapshot alone: after a friends_online frame the device shows
\* as online exactly the friends whose device ids the frame lists.
C17_FollowsSnapshot ==
    [][\A d \in Devices :
           (/\ t_conn[d] # 0
            /\ h2c[t_conn[d]] # <<>>
            /\ Head(h2c[t_conn[d]]).type = "friends_online"
            /\ RelayDeviceRecv(d))
               => \A f \in DOMAIN t_friends[d] :
                      ShowsAfter(d, f) = "online"
                          <=> InSeq(t_friends[d][f], Head(h2c[t_conn[d]]).friends)]_vars

\* C18 -- The indicator of every friend is the first rule that applies, in
\* the order recording-for-X, X-recording, unheard, sent, online, off, and
\* after every handler of the coordinator and every presence change the
\* indicator shown for each friend is that function of the current state.
C18_ShownIsComputed == \A f \in friends : leds[f] = Indicator(Cur, f)

\* C18 where presence never changes (mock mode: every friend online)
C18_ShownIsComputedMock == mock_mode => \A f \in friends : leds[f] = Indicator(Cur, f)

NameOf(raw) == IF raw.device_name = None THEN "Unknown" ELSE raw.device_name

\* the step is the handling of a register message with a device id
Registration(c, raw) ==
    \E raises \in BOOLEAN : RegistersAs(c, raw) /\ HubRecv(c, raw, raises)

C20_QuietAfterShutdown ==
    [][shut_down => UNCHANGED <<Coord, Shown>>]_vars

\* C20, the timers shutdown() knows: once it has run, neither the playback
\* timer nor the conversation timer is pending.
C20_TimersCancelled ==
    shut_down => ~playback_timer /\ ~conversation_timeout_timer

\* C20, outside mock mode: no step after shutdown() changes the coordinator.
C20_QuietWithoutMock ==
    [][shut_down /\ ~mock_mode => UNCHANGED <<Coord, Shown, files>>]_vars

\* C20: a mock "heard" timer is still pending when shutdown() has run.
C20_TimerOutlivesShutdown ==
    shut_down /\ mock_timers # {}

\* ===================================================================== C21
\* The cancellations of the coordinator, called where they have nothing to
\* cancel.
\* "if self.playback_timer: self.playback_timer.cancel(); self.playback_timer
\* = None", as _stop_playback, _play_previous_message and shutdown have it
CancelPlaybackTimer(s) == [s EXCEPT !.playback_timer = FALSE]

\* _cancel_conversation_timeout() with no timer pending
CancelConversationTimeoutAgain ==
    /\ ~conversation_timeout_timer
    /\ Apply(CancelConversationTimeout(Cur))
    /\ UNCHANGED <<Config, Net, outside>>

\* the playback timer is cancelled with no timer pending
CancelPlaybackTimerAgain ==
    /\ ~playback_timer
    /\ Apply(CancelPlaybackTimer(Cur))
    /\ UNCHANGED <<Config, Net, outside>>

\* _stop_playback() while the coordinator is not Playing
StopPlaybackNotPlaying ==
    /\ state # PLAYING
    /\ Apply(StopPlayback(Cur))
    /\ UNCHANGED <<Config, Net, outside>>

NextCancel ==
    \/ \E f \in AllFriends : FriendButtonPressed(f)
    \/ \E startOk, yield \in BOOLEAN : RecordButtonPressed(startOk, yield)
    \/ DialogButtonPressed
    \/ \E f \in AllFriends : MessageArrived(f)
    \/ \E f \in AllFriends, id \in {1, MaxMsgs + 1} : MessageHeardAck(f, id)
    \/ PlaybackTimerFires
    \/ ConversationTimeoutFired
    \/ TransportConnects
    \/ TransportDisconnects
    \/ \E S \in SUBSET AllFriends : FriendsOnline(S)
    \/ \E id \in 1..MaxMsgs : FileVanishes(id)
    \/ CancelConversationTimeoutAgain
    \/ CancelPlaybackTimerAgain
    \/ StopPlaybackNotPlaying

SpecCancel == Init /\ [][NextCancel]_vars

\* the coordinator's fields of record s, the log of calls left out
Fields(s) == [s EXCEPT !.calls = <<>>]

\* C21 -- Cancelling the conversation timer or the playback timer when none
\* is pending, and stopping playback when the state is not Playing, leave
\* state, selected_friend, conversation_mode, the message sequences,
\* SentStatus and pending_autoplay (and the timers, the cursor and the
\* indicators) as they are; and in every reachable state each of the three,
\* done twice in a row, leaves the coordinator as doing it once does.
C21_Idempotent ==
    /\ [][(CancelConversationTimeoutAgain \/ CancelPlaybackTimerAgain
             \/ StopPlaybackNotPlaying)
          => UNCHANGED <<Coord, Shown, files>>]_vars
    /\ [](LET s == Cur
          IN /\ CancelConversationTimeout(CancelConversationTimeout(s))
                  = CancelConversationTimeout(s)
             /\ CancelPlaybackTimer(CancelPlaybackTimer(s))
                  = CancelPlaybackTimer(s)
             /\ Fields(StopPlayback(StopPlayback(s))) = Fields(StopPlayback(s)))

\* _stop_playback() has just been called during a recording, which goes on.
C21_Witness ==
    /\ state = RECORDING /\ audio_recording
    /\ calls = <<AudioCall("stop_playback", 0)>>

\* ===================================================================== C22
\* a Received message of friend f is heard after the step and was not before
BecomesHeard(f) ==
    \E j \in DOMAIN messages'[f] :
       LET m == messages'[f][j]
       IN /\ m.direction = "received" /\ m.heard
          /\ \A i \in DOMAIN messages[f] :
                messages[f][i].id = m.id => ~messages[f][i].heard

\* C22 -- A Received message's heard flag is set, and its heard-ack handed
\* to the transport, by the step in which its playback finishes (the
\* playback timer fires) and by no other: not by the step that starts its
\* playback.
C22_HeardWhenFinished ==
    [][(\/ \E f \in friends : BecomesHeard(f)
        \/ CallIdx(calls', "message_heard") # {})
       => PlaybackTimerFires]_vars

\* C22, as the code has it: the flag is set and the ack handed over by the
\* step that starts the playback of the message, which leaves the playback
\* timer pending.
C22_HeardWhenStarted ==
    [][\A f \in friends : BecomesHeard(f) =>
         /\ state' = PLAYING /\ playback_friend' = f /\ playback_timer'
         /\ ~PlaybackTimerFires
         /\ \E i \in CallIdx(calls', "message_heard") :
               /\ calls'[i].to = f
               /\ calls'[i].id = messages'[f][playback_index' + 1].id]_vars

\* ===================================================================== C23
\* ---- the coordinator together with its audio player
\* AudioManager after the calls cs the coordinator made to it: play_message
\* starts playing a file, stop_playback ends whatever is playing
RECURSIVE PlayerAfter(_, _)
PlayerAfter(p, cs) ==
    IF cs = <<>> THEN p
    ELSE LET c == Head(cs)
         IN PlayerAfter(IF c.op = "play_message" THEN c.id
                        ELSE IF c.op = "stop_playback" THEN 0
                        ELSE p,
                        Tail(cs))

PlayerFrame ==
    /\ now_playing' = PlayerAfter(now_playing, calls')
    /\ UNCHANGED <<Config, Net, hubVars, relayVars, threadVars, linkVars,
                   lifeVars, timerVars>>

\* hardware.on_friend_button(friend_id)
FriendButtonPlayer(f) ==
    /\ f \in friends
    /\ Apply(HandleFriendButton(Cur, f))
    /\ PlayerFrame

\* hardware.on_record_button()
RecordButtonPlayer(startOk, yield) ==
    /\ state = RECORDING => startOk
    /\ state # RECORDING => ~yield
    /\ yield => TotalMsgs(messages) < MaxMsgs
    /\ Apply(HandleRecordButton(Cur, startOk, yield))
    /\ PlayerFrame

\* hardware.on_dialog_button()
DialogButtonPlayer ==
    /\ Apply(HandleDialogButton(Cur))
    /\ PlayerFrame

\* network.on_message_received(friend_id, message_data)
MessageArrivedPlayer(f) ==
    /\ f \in friends
    /\ mock_mode \/ connected
    /\ TotalMsgs(messages) < MaxMsgs
    /\ LET id == FreshId(Cur)
           message_data == [id |-> id, file |-> id]
       IN Apply(HandleMessageReceived([Cur EXCEPT !.files = @ \cup {id}],
                                      f, message_data))
    /\ PlayerFrame

\* the playback threading.Timer expires: the file has been played to its end
PlaybackTimerPlayer ==
    /\ playback_timer
    /\ Apply(OnPlaybackFinished(Cur))
    /\ PlayerFrame

NextPlayer ==
    \/ \E f \in AllFriends : FriendButtonPlayer(f)
    \/ \E startOk, yield \in BOOLEAN : RecordButtonPlayer(startOk, yield)
    \/ DialogButtonPlayer
    \/ \E f \in AllFriends : MessageArrivedPlayer(f)
    \/ \E f \in AllFriends : MessageHeardAck(f, 1)
    \/ PlaybackTimerPlayer
    \/ ConversationTimeoutFired
    \/ TransportConnects
    \/ TransportDisconnects
    \/ \E S \in SUBSET AllFriends : FriendsOnline(S)
    \/ \E id \in 1..MaxMsgs : FileVanishes(id)

SpecPlayer == Init /\ [][NextPlayer]_vars

\* the place in seq of the message with this id
PlaceOf(seq, id) == CHOOSE i \in DOMAIN seq : seq[i].id = id

\* C23 -- FriendButtonPressed(f) in Playing: if f is the friend of the
\* playback cursor, the message immediately older than the one being played
\* is played next (its file being there), the most recent one (index 0)
\* after the oldest; if f is another friend, playback stops, the state
\* becomes Idle and f the selected friend.
C23_OlderThanPlayed ==
    [][\A f \in friends : state = PLAYING /\ FriendButtonPlayer(f) =>
         IF f = playback_friend
         THEN LET msgs == messages[f]
                  i == PlaceOf(msgs, now_playing)
                  older == IF i = Len(msgs) THEN 1 ELSE i + 1
              IN msgs[older].file \in files =>
                   /\ state' = PLAYING
                   /\ playback_friend' = f
                   /\ playback_index' = older - 1
                   /\ now_playing' = msgs[older].id
         ELSE /\ state' = IDLE
              /\ selected_friend' = f
              /\ playback_friend' = None
              /\ now_playing' = 0]_vars

\* C23, by the index: the press moves the cursor from its index to the next
\* one, to index 0 from the last, and the message now at that index is
\* played.
C23_NextIndex ==
    [][\A f \in friends : state = PLAYING /\ FriendButtonPlayer(f) =>
         IF f = playback_friend
         THEN LET msgs == messages[f]
                  next == IF playback_index + 1 >= Len(msgs) THEN 0
                          ELSE playback_index + 1
              IN msgs[next + 1].file \in files =>
                   /\ state' = PLAYING
                   /\ playback_friend' = f
                   /\ playback_index' = next
                   /\ now_playing' = msgs[next + 1].id
         ELSE /\ state' = IDLE
              /\ selected_friend' = f
              /\ playback_friend' = None
              /\ now_playing' = 0]_vars

\* C23: while Playing a message is being played, one of the friend of the
\* cursor, who is the selected friend.
C23_PlayingSelected ==
    state = PLAYING =>
      /\ playback_friend = selected_friend
      /\ \E i \in DOMAIN messages[playback_friend] :
            messages[playback_friend][i].id = now_playing

\* ===================================================================== C24
\* C24 -- FriendButtonPressed(f) in Recording, for any f, cancels the
\* recording without sending: the message sequences and SentStatus are
\* unchanged, no voice message is handed to the transport, the transport
\* gets recording_stopped for the selected friend, capture is stopped, the
\* state becomes Idle and pending_autoplay is cleared, the stashed message
\* not being played.
C24_CancelWithoutSending ==
    [][state = RECORDING /\ FriendAct =>
         /\ messages' = messages
         /\ message_sent_status' = message_sent_status
         /\ selected_friend' = selected_friend
         /\ CallIdx(calls', "send_message") = {}
         /\ Cardinality(CallIdx(calls', "recording_stopped")) = 1
         /\ CallsTo(calls', "recording_stopped", selected_friend) # {}
         /\ calls'[Len(calls')] = AudioCall("stop_recording", 0)
         /\ ~audio_recording'
         /\ state' = IDLE
         /\ pending_autoplay' = NoPending
         /\ CallIdx(calls', "play_message") = {}
         /\ playback_friend' = None /\ ~playback_timer']_vars

\* A recording was cancelled in conversation mode after a message had
\* arrived during it: the message is there unheard, nothing is pending and
\* the coordinator is Idle.
C24_Witness ==
    /\ state = IDLE /\ conversation_mode /\ pending_autoplay = NoPending
    /\ calls = <<NetCall("recording_stopped", selected_friend, 0),
                 AudioCall("stop_recording", 0)>>
    /\ \E f \in friends :
          /\ messages[f] # <<>>
          /\ messages[f][1].direction = "received" /\ ~messages[f][1].heard

\* ===================================================================== C25
\* FriendButtonPressed(f) in Idle for a friend that is not selected, or that
\* is selected and has no message: the part of C25 that does not depend on
\* the audio file.
FriendInIdleElse(f) ==
    IF f # selected_friend
    THEN /\ selected_friend' = f
         /\ UNCHANGED <<state, messages, message_sent_status, playback_friend,
                        playback_index, playback_timer, conversation_mode,
                        conversation_timeout_timer, pending_autoplay,
                        audio_recording, files>>
         /\ calls' = <<HardwareCall("set_yellow_led", f)>>
    ELSE /\ UNCHANGED <<Coord, Shown, files>>
         /\ calls' = <<>>

C26_DialogToggles ==
    /\ [](conversation_timeout_timer <=> conversation_mode)
    /\ [][DialogButtonPressed =>
            /\ state' = IDLE
            /\ conversation_mode' = ~conversation_mode
            /\ conversation_timeout_timer' = conversation_mode'
            /\ ~audio_recording'
            /\ playback_friend' = None /\ ~playback_timer'
            /\ messages' = messages
            /\ message_sent_status' = message_sent_status
            /\ selected_friend' = selected_friend
            /\ CallIdx(calls', "send_message") = {}
            /\ CallIdx(calls', "play_message") = {}
            /\ state = RECORDING =>
                 CallsTo(calls', "recording_stopped", selected_friend) # {}
            /\ state = PLAYING => calls' = <<AudioCall("stop_playback", 0)>>]_vars

\* Conversation mode was entered by a press that stopped a playback: the
\* coordinator is Idle with the inactivity timer pending.
C26_Witness ==
    /\ state = IDLE /\ conversation_mode /\ conversation_timeout_timer
    /\ playback_friend = None /\ ~playback_timer
    /\ calls = <<AudioCall("stop_playback", 0)>>
    /\ \E f \in friends : messages[f] # <<>>

\* ===================================================================== C27
\* C27 -- MessageArrived(f) while Recording with conversation_mode on makes
\* the arrived message the one pending_autoplay item, whatever was pending;
\* the message is prepended unheard to the sequence of f, the conversation
\* timer is pending anew, the state stays Recording and capture goes on.
\* With conversation_mode off, or while Playing, an arrival changes neither
\* the state, the selection, the cursor nor pending_autoplay.
C27_LastArrivalPending ==
    [][\A f \in friends : MessageArrived(f) =>
         LET m == TotalMsgs(messages) + 1
             unheard == [id |-> m, file |-> m, heard |-> FALSE,
                         direction |-> "received"]
         IN /\ (state # IDLE \/ ~conversation_mode) =>
                 messages' = [messages EXCEPT ![f] = <<unheard>> \o @]
            /\ (state = RECORDING /\ conversation_mode) =>
                 /\ pending_autoplay' =
                      <<[friend_id |-> f,
                         message_data |-> [id |-> m, file |-> m]]>>
                 /\ conversation_timeout_timer'
                 /\ state' = RECORDING
                 /\ audio_recording' = audio_recording
                 /\ UNCHANGED <<selected_friend, playback_friend,
                                playback_index, message_sent_status>>
                 /\ calls' = <<>>
            /\ (~conversation_mode \/ state = PLAYING) =>
                 /\ UNCHANGED <<state, selected_friend, playback_friend,
                                playback_index, playback_timer,
                                pending_autoplay, audio_recording,
                                conversation_mode>>
                 /\ calls' = <<>>]_vars

\* Two messages have arrived during a recording in conversation mode: both
\* are there unheard, the second is the pending one and capture goes on.
C27_Witness ==
    /\ state = RECORDING /\ audio_recording /\ conversation_mode
    /\ pending_autoplay # NoPending
    /\ pending_autoplay[1].message_data.id = 2
    /\ calls = <<>>
    /\ \E f, g \in friends :
          /\ f # g
          /\ Len(messages[f]) = 1 /\ ~messages[f][1].heard
          /\ messages[f][1].direction = "received" /\ messages[f][1].id = 1
          /\ Len(messages[g]) = 1 /\ ~messages[g][1].heard
          /\ messages[g][1].direction = "received" /\ messages[g][1].id = 2
          /\ pending_autoplay[1].friend_id = g

\* ===================================================================== C28
\* the index _play_previous_message moves the cursor to
NextIndex == IF playback_index + 1 >= Len(messages[playback_friend]) THEN 0
             ELSE playback_index + 1

\* the press of friend button f goes for a message whose audio file is
\* missing: the most recent one of the selected friend in Idle, the next by
\* index while Playing
PressFindsFileMissing(f) ==
    /\ f = selected_friend
    /\ messages[f] # <<>>
    /\ \/ state = IDLE /\ messages[f][1].file \notin files
       \/ /\ state = PLAYING /\ playback_friend = f
          /\ messages[f][NextIndex + 1].file \notin files

C29_AckClears ==
    [][\A f \in friends, id \in {1, MaxMsgs + 1} :
         MessageHeardAck(f, id) =>
           /\ message_sent_status' = [message_sent_status EXCEPT ![f] = FALSE]
           /\ UNCHANGED <<state, selected_friend, playback_friend,
                          playback_index, playback_timer, conversation_mode,
                          conversation_timeout_timer, messages,
                          pending_autoplay, audio_recording, files>>
           /\ calls' = <<>>]_vars

\* Two messages were sent to a friend and an ack has cleared the status.
C29_Witness ==
    \E f \in friends :
       /\ Len(messages[f]) = 2
       /\ messages[f][1].direction = "sent" /\ messages[f][2].direction = "sent"
       /\ ~message_sent_status[f]
       /\ calls = <<>>

\* ===================================================================== C30
\* the next frame device d reads is of one of these types
Reads(d, types) ==
    /\ t_conn[d] # 0
    /\ h2c[t_conn[d]] # <<>>
    /\ Head(h2c[t_conn[d]]).type \in types

\* voice_message frames in the queue of connection c; sends of device d
\* that put a frame on its connection
VoiceOn(q, c) ==
    Cardinality({i \in DOMAIN q[c] : q[c][i].type = "voice_message"})
OnWireOf(sm, d) == Cardinality({i \in DOMAIN sm[d] : sm[d][i].on_wire})

\* C30 -- Message traffic never changes presence and is never retried: a
\* device that reads a recipient_offline or message_delivered reply or a
\* voice_message, or that sends, shows every friend's presence as before;
\* the two replies make the transport call nothing in the coordinator (so
\* SentStatus stays as it is) and put nothing on the wire; a voice_message
\* goes on the wire only in the step of a send, one per send.
C30_NoPresenceNoRetry ==
    [][/\ \A d \in Devices :
            Reads(d, {"recipient_offline", "message_delivered", "voice_message"})
              /\ RelayDeviceRecv(d) =>
                /\ t_online' = t_online /\ t_conn' = t_conn
                /\ c2h' = c2h /\ sent_messages' = sent_messages
                /\ Head(h2c[t_conn[d]]).type # "voice_message" =>
                      events' = events /\ audio_files' = audio_files
       /\ sent_messages' # sent_messages =>
            /\ t_online' = t_online /\ t_conn' = t_conn
            /\ events' = events
       /\ \A c \in Conns : VoiceOn(c2h', c) > VoiceOn(c2h, c) =>
            /\ VoiceOn(c2h', c) = VoiceOn(c2h, c) + 1
            /\ \A o \in Conns \ {c} : c2h'[o] = c2h[o]
            /\ \E d \in Devices :
                  /\ t_conn[d] = c
                  /\ OnWireOf(sent_messages', d) = OnWireOf(sent_messages, d) + 1
                  /\ Len(sent_messages'[d]) = Len(sent_messages[d]) + 1]_vars

\* Device A, on the only connection there has been, has sent a message to a
\* friend whose device never registered, and has read the hub's
\* recipient_offline reply: nothing is in flight.
C30_Witness ==
    /\ t_conn["A"] # 0
    /\ \A c \in Conns : c # t_conn["A"] => conn_state[c] = "free"
    /\ OnWireOf(sent_messages, "A") = 1
    /\ \A c \in Conns : c2h[c] = <<>> /\ h2c[c] = <<>>
    /\ events["A"] = <<>>

\* ===================================================================== C31
\* ---- devices that come back
\* The relay after an earlier session: B and then A had registered, A had
\* read the snapshot naming B, both connections were lost and the hub has
\* run their finally blocks.  A's online_friends is what that session left
\* (nothing clears it on a disconnect); the closed connections are gone, so
\* the connections to come are numbered from 1 again.
HubLeftOver ==
    /\ connected_devices = <<>>
    /\ device_info = [d \in Devices |->
                        [name |-> RegisterFrame(d, t_friends[d]).device_name,
                         friends |-> RegisterFrame(d, t_friends[d]).friends]]
    /\ device_registry = RegistryUpdate(RegistryUpdate(<<>>, "B", "kitchen", 0),
                                        "A", "kitchen", 0)
    /\ devices_file = device_registry
    /\ hub_clock = 0
    /\ conn_state = [c \in Conns |-> "free"]
    /\ conn_device = [c \in Conns |-> None]
    /\ hub_sends = <<>>

RelayLeftOver ==
    /\ t_friends \in {cfg \in [Devices -> UNION {FriendConfigs(d) : d \in Devices}] :
                         \A d \in Devices : cfg[d] \in FriendConfigs(d)}
    /\ t_conn = [d \in Devices |-> 0]
    /\ t_online = [d \in Devices |-> IF d = "A" THEN {"bob"} ELSE {}]
    /\ c2h = [c \in Conns |-> <<>>]
    /\ h2c = [c \in Conns |-> <<>>]
    /\ sent_messages = [d \in Devices |-> <<>>]
    /\ audio_files = [d \in Devices |-> NoFiles]
    /\ events = [d \in Devices |-> <<>>]

\* what the earlier session leaves, as a state of the relay started fresh
\* (there the closed connections are still numbered)
LeftOverOfSession ==
    /\ t_online["A"] = {"bob"} /\ t_online["B"] = {}
    /\ \A d \in Devices : t_conn[d] = 0 /\ sent_messages[d] = <<>>
    /\ connected_devices = <<>>
    /\ device_registry = RegistryUpdate(RegistryUpdate(<<>>, "B", "kitchen", 0),
                                        "A", "kitchen", 0)
    /\ devices_file = device_registry
    /\ \A c \in Conns : conn_state[c] = "done" /\ c2h[c] = <<>> /\ h2c[c] = <<>>

InitRejoin ==
    RelayLeftOver /\ HubLeftOver /\ CoordParked /\ ThreadsInit /\ LinkParked
    /\ LifeInit

SpecRejoin == InitRejoin /\ [][NextRelay]_vars

\* the frame device d reads next is the last one of the hub's answer to its
\* registration: the snapshot, or 'registered' with no snapshot behind it
RegistrationCompletes(d) ==
    \/ Reads(d, {"friends_online"})
    \/ /\ Reads(d, {"registered"})
       /\ \/ Len(h2c[t_conn[d]]) = 1
          \/ h2c[t_conn[d]][2].type # "friends_online"

\* the friends of d the hub found connected at that registration
FriendsAtRegistration(d) ==
    IF Head(h2c[t_conn[d]]).type = "friends_online"
    THEN {f \in DOMAIN t_friends[d] :
             InSeq(t_friends[d][f], Head(h2c[t_conn[d]]).friends)}
    ELSE {}

\* C31 -- When a registration or re-registration completes, the friends the
\* transport reports as Online are exactly the friends of the device that
\* were in the hub's connected table at that registration, none being shown
\* Online from what an earlier connection left.
C31_SnapshotExact ==
    [][\A d \in Devices :
         RegistrationCompletes(d) /\ RelayDeviceRecv(d) =>
            {f \in DOMAIN t_friends[d] : ShowsAfter(d, f) = "online"}
               = FriendsAtRegistration(d)]_vars

\* ===================================================================== C32
\* ---- frames that are not what the protocol prescribes
MaxPending == 1

\* handle_websocket's dispatch: the types it knows, and per type the fields
\* its handlers test before acting
LacksField(raw) ==
    \/ raw.type = "register" /\ raw.device_id = None
    \/ raw.type = "voice_message"
       /\ (raw.recipient_id = None \/ raw.message_id = 0 \/ raw.audio_data = <<>>)
    \/ raw.type = "message_heard"
       /\ (raw.sender_id = None \/ raw.message_id = 0)
    \/ raw.type \in {"recording_started", "recording_stopped"}
       /\ raw.recipient_id = None

MalformedToHub ==
    {raw \in HubInputs :
        \/ raw = InvalidJson
        \/ raw.type \notin {"register", "voice_message", "message_heard",
                            "recording_started", "recording_stopped", "ping"}
        \/ LacksField(raw)}

\* the same for _handle_message: frames of the hub's types without the id
\* of the sending device, without the message id, or without the list
MalformedToDevice ==
    {InvalidJson, WireMsg("status"), WireMsg("friends_online"),
     WireMsg("recording_started")}
    \cup { v \in { [WireMsg("voice_message")
                       EXCEPT !.sender_id = s, !.message_id = id,
                              !.audio_data = B64Encode(<<1>>),
                              !.timestamp = 7] :
                      s \in DeviceIds \cup {None}, id \in {0, 1} } :
             v.sender_id = None \/ v.message_id = 0 }
    \cup { [WireMsg("message_heard") EXCEPT !.listener_id = l] :
             l \in DeviceIds \cup {None} }
    \cup { [WireMsg("message_heard") EXCEPT !.message_id = 1] }

\* handle_websocket reads such a frame from an open connection
HubRecvMalformed(c, raw) ==
    /\ conn_state[c] = "open"
    /\ Len(h2c[c]) < MaxPending
    /\ LET h == HandleWebsocketMsg(HubCur(c), c, raw, FALSE)
       IN /\ HubApply(c, [h EXCEPT !.sends = <<>>])
          /\ h2c' = Deliver(h2c, h.sends)
    /\ UNCHANGED <<conn_state, t_friends, t_conn, t_online, c2h, sent_messages,
                   audio_files, events>>

\* _websocket_handler reads such a frame from its connection
DeviceRecvMalformed(d, raw) ==
    /\ t_conn[d] # 0
    /\ Len(events[d]) < MaxPending
    /\ TrApply(d, HandleMessage(TrCur(d), t_friends[d], raw))
    /\ UNCHANGED <<t_friends, t_conn, c2h, h2c, sent_messages, hubVars>>

\* devices connect, register and read what the hub answers; connections are
\* lost; no voice message is sent
NextWire ==
    \/ \E d \in Devices, c \in Conns : RelayConnect(d, c) /\ UNCHANGED nonRelay
    \/ \E c \in Conns : RelayHubRecv(c, FALSE) /\ UNCHANGED nonRelay
    \/ \E d \in Devices : RelayDeviceRecv(d) /\ UNCHANGED nonRelay
    \/ \E d \in Devices : RelayDisconnect(d) /\ UNCHANGED nonRelay
    \/ \E c \in Conns, raw \in MalformedToHub :
           HubRecvMalformed(c, raw) /\ UNCHANGED nonRelay
    \/ \E d \in Devices, raw \in MalformedToDevice :
           DeviceRecvMalformed(d, raw) /\ UNCHANGED nonRelay

SpecWire == InitRelay /\ [][NextWire]_vars

\* the hub's tables and what is on the way to the devices, but for an error
\* reply to the connection itself
HubDrops(c) ==
    /\ UNCHANGED <<connected_devices, device_info, device_registry,
                   devices_file, conn_state>>
    /\ \A c2 \in Conns \ {c} : h2c'[c2] = h2c[c2]
    /\ \/ h2c'[c] = h2c[c]
       \/ h2c'[c] = Append(h2c[c], WireMsg("error"))

TransportDrops(d) ==
    /\ UNCHANGED <<t_online, audio_files, events>>
    /\ t_conn'[d] = t_conn[d]

\* C32 -- A frame that is not valid JSON, lacks a required field or has an
\* unknown type is dropped by the hub and by the transport: the connected
\* table, the registry, presence, the files and the callbacks made to the
\* coordinator stay as they are, nothing is forwarded, the connection stays
\* open; a register without device_id gets an error reply and adds nothing.
C32_MalformedDropped ==
    [][/\ \A c \in Conns, raw \in MalformedToHub :
             HubRecvMalformed(c, raw) => HubDrops(c)
       /\ \A d \in Devices, raw \in MalformedToDevice :
             DeviceRecvMalformed(d, raw) => TransportDrops(d)]_vars

\* the hub's half of C32
C32_HubDrops ==
    [][\A c \in Conns, raw \in MalformedToHub :
          HubRecvMalformed(c, raw) => HubDrops(c)]_vars

\* the transport's half for frames that do not parse or have an unknown
\* type, or whose sender is not a friend's device
C32_TransportDropsUnreadable ==
    [][\A d \in Devices, raw \in {InvalidJson, WireMsg("status"),
                                   WireMsg("recording_started")} :
          DeviceRecvMalformed(d, raw) => TransportDrops(d)]_vars

\* ===================================================================== C33
\* ---- devices that play what they received
\* For the coordinator of device d, events[d] is what it holds of the
\* transport's callbacks; the entry of a received message turns to
\* "message_played" when _play_current_message marks it heard.
\* _play_current_message (the 'not heard' branch) -> notify_message_heard:
\* nothing goes on the wire while the transport is not connected
RelayPlays(d) ==
    \E i \in DOMAIN events[d] :
       /\ events[d][i].kind = "message_received"
       /\ events' = [events EXCEPT ![d][i].kind = "message_played"]
       /\ c2h' = IF t_conn[d] = 0 THEN c2h
                 ELSE [c2h EXCEPT ![t_conn[d]] =
                          Append(@, [WireMsg("message_heard")
                             EXCEPT !.sender_id =
                                       t_friends[d][events[d][i].friend_id],
                                    !.message_id = events[d][i].id])]
       /\ UNCHANGED <<t_friends, t_conn, t_online, h2c, sent_messages,
                      audio_files, hubVars>>

\* no recording_* frame of another device is on its way to device o or has
\* been handed to its coordinator
RecordingUnseen(o) ==
    /\ \A i \in DOMAIN events[o] :
          events[o][i].kind \notin {"recording_started", "recording_stopped"}
    /\ \A c \in Conns : \A i \in DOMAIN h2c[c] :
          h2c[c][i].type \notin {"recording_started", "recording_stopped"}

\* send_recording_started / send_recording_stopped
RelayRecording(d, friend_id, type) ==
    /\ friend_id \in DOMAIN t_friends[d]
    /\ t_conn[d] # 0
    /\ c2h[t_conn[d]] = <<>>
    /\ RecordingUnseen(t_friends[d][friend_id])
    /\ c2h' = [c2h EXCEPT ![t_conn[d]] =
                  Append(@, [WireMsg(type)
                               EXCEPT !.sender_id = d,
                                      !.recipient_id = t_friends[d][friend_id]])]
    /\ UNCHANGED <<t_friends, t_conn, t_online, h2c, sent_messages,
                   audio_files, events, hubVars>>

NextHeard ==
    \/ \E d \in Devices, c \in Conns : RelayConnect(d, c) /\ UNCHANGED nonRelay
    \/ \E d \in Devices, f \in AllFriends :
           RelaySend(d, f, <<1>>) /\ UNCHANGED nonRelay
    \/ \E c \in Conns, raises \in BOOLEAN :
           RelayHubRecv(c, raises) /\ UNCHANGED nonRelay
    \/ \E d \in Devices : RelayDeviceRecv(d) /\ UNCHANGED nonRelay
    \/ \E d \in Devices : RelayPlays(d) /\ UNCHANGED nonRelay
    \/ \E d \in Devices, f \in AllFriends,
          type \in {"recording_started", "recording_stopped"} :
           RelayRecording(d, f, type) /\ UNCHANGED nonRelay
    \/ \E d \in Devices : RelayDisconnect(d) /\ UNCHANGED nonRelay
    \/ \E c \in Conns : RelayConnCloses(c) /\ UNCHANGED nonRelay
    \/ \E c \in Conns : RelayHubCleanup(c) /\ UNCHANGED nonRelay

SpecHeard == InitRelay /\ [][NextHeard]_vars

\* each handle_websocket task and each _websocket_handler goes on reading
\* its connection
HeardFairness ==
    /\ \A c \in Conns : WF_vars(RelayHubRecv(c, FALSE) /\ UNCHANGED nonRelay)
    /\ \A d \in Devices : WF_vars(RelayDeviceRecv(d) /\ UNCHANGED nonRelay)

SpecHeardFair == SpecHeard /\ HeardFairness

\* message_sent_status of device d for its friend: set by the send, cleared
\* by handle_message_heard when the transport hands over a heard-ack
AwaitingHeard(d, friend_id) ==
    /\ \E i \in DOMAIN sent_messages[d] :
          sent_messages[d][i].friend_id = friend_id
    /\ \A i \in DOMAIN events[d] :
          ~(events[d][i].kind = "message_heard"
            /\ events[d][i].friend_id = friend_id)

BothConnected == \A d \in Devices : t_conn[d] # 0

PlayedBy(d) ==
    \E i \in DOMAIN events[d] : events[d][i].kind = "message_played"

\* the frame the hub reads next on connection c is a message_heard or a
\* recording_* frame, and the device it names
StatusFrameOn(c) ==
    /\ c2h[c] # <<>>
    /\ Head(c2h[c]).type \in {"message_heard", "recording_started",
                              "recording_stopped"}

CounterpartOf(raw) ==
    IF raw.type = "message_heard" THEN raw.sender_id ELSE raw.recipient_id

ForwardedAs(raw, origin) ==
    IF raw.type = "message_heard"
    THEN [WireMsg("message_heard") EXCEPT !.listener_id = origin,
                                          !.message_id = raw.message_id]
    ELSE [WireMsg(raw.type) EXCEPT !.sender_id = origin]

\* forwarded to the counterpart's connection and nowhere else; dropped with
\* nothing sent when the counterpart is not connected
ForwardedOrDropped(c) ==
    LET raw == Head(c2h[c])
        to == CounterpartOf(raw)
    IN IF to \in Keys(connected_devices)
          /\ Accepts(Get(connected_devices, to))
          /\ Attached(Get(connected_devices, to))
       THEN h2c' = [h2c EXCEPT ![Get(connected_devices, to)] =
                       Append(@, ForwardedAs(raw, conn_device[c]))]
       ELSE h2c' = h2c

\* ---- after a reconnect that overlapped
\* Device A had registered on a connection that the hub still held open
\* when A connected and registered again; the older connection then closed
\* and its handle_websocket ran the finally block.  A has read the hub's
\* answer on its connection, which is numbered 1 here, the older one being
\* gone.
HubAfterOverlap ==
    /\ connected_devices = <<>>
    /\ device_info = PutF(<<>>, "A",
                          [name |-> RegisterFrame("A", t_friends["A"]).device_name,
                           friends |-> RegisterFrame("A", t_friends["A"]).friends])
    /\ device_registry = RegistryUpdate(RegistryUpdate(<<>>, "A", "kitchen", 0),
                                        "A", "kitchen", 0)
    /\ devices_file = device_registry
    /\ hub_clock = 0
    /\ conn_state = [c \in Conns |-> IF c = 1 THEN "open" ELSE "free"]
    /\ conn_device = [c \in Conns |-> IF c = 1 THEN "A" ELSE None]
    /\ hub_sends = <<>>

RelayAfterOverlap ==
    /\ t_friends \in {cfg \in [Devices -> UNION {FriendConfigs(d) : d \in Devices}] :
                         \A d \in Devices : cfg[d] \in FriendConfigs(d)}
    /\ t_conn = [d \in Devices |-> IF d = "A" THEN 1 ELSE 0]
    /\ t_online = [d \in Devices |-> {}]
    /\ c2h = [c \in Conns |-> <<>>]
    /\ h2c = [c \in Conns |-> <<>>]
    /\ sent_messages = [d \in Devices |-> <<>>]
    /\ audio_files = [d \in Devices |-> NoFiles]
    /\ events = [d \in Devices |-> <<>>]

\* the same as a state of the relay started fresh, where the older
\* connection is 1 and the newer one 2
OverlapOfSession ==
    /\ t_conn = [d \in Devices |-> IF d = "A" THEN 2 ELSE 0]
    /\ conn_state = <<"done", "open">>
    /\ conn_device = <<None, "A">>
    /\ connected_devices = <<>>
    /\ device_info = PutF(<<>>, "A",
                          [name |-> RegisterFrame("A", t_friends["A"]).device_name,
                           friends |-> RegisterFrame("A", t_friends["A"]).friends])
    /\ device_registry = RegistryUpdate(RegistryUpdate(<<>>, "A", "kitchen", 0),
                                        "A", "kitchen", 0)
    /\ devices_file = device_registry
    /\ hub_clock = 0
    /\ \A c \in Conns : c2h[c] = <<>> /\ h2c[c] = <<>>
    /\ \A d \in Devices : t_online[d] = {} /\ sent_messages[d] = <<>>
                          /\ events[d] = <<>> /\ audio_files[d] = NoFiles

InitOverlap ==
    RelayAfterOverlap /\ HubAfterOverlap /\ CoordParked /\ ThreadsInit
    /\ LinkParked /\ LifeInit

SpecHeardOverlap == InitOverlap /\ [][NextHeard]_vars /\ HeardFairness

\* C33 -- When device B has played a message of device A and both stay
\* connected, A's awaiting-heard status for B eventually becomes false; the
\* hub forwards a message_heard or recording_* frame to the connection of
\* the device it names and to no other, and drops it with no reply when
\* that device is not connected.
C33_HeardAck ==
    /\ \A d \in Devices :
          (PlayedBy(d) /\ BothConnected) ~>
             (\/ ~BothConnected
              \/ \A f \in DOMAIN t_friends[OtherDevice(d)] :
                    ~AwaitingHeard(OtherDevice(d), f))
    /\ [][\A c \in Conns :
            StatusFrameOn(c) /\ (\E r \in BOOLEAN : RelayHubRecv(c, r))
               => ForwardedOrDropped(c)]_vars

C33_Witness ==
    /\ PlayedBy("B") /\ BothConnected
    /\ ~AwaitingHeard("A", "bob")
    /\ sent_messages["A"] # <<>>

\* ===================================================================== C34
\* connection c is open at the hub and registered under device id d
RegisteredOpen(c, d) == conn_state[c] = "open" /\ conn_device[c] = d

\* C34 -- When a device id has registered on a newer connection while an
\* older connection under the same id was still open, the later close of
\* the older connection neither removes the id from the connected table nor
\* broadcasts friend_offline; a device with an open registered connection
\* is always in the connected table, mapped to a connection registered
\* under its id.
C34_OverlapKeepsEntry ==
    /\ [](\A c \in Conns, d \in DeviceIds :
             RegisteredOpen(c, d) =>
                /\ d \in Keys(connected_devices)
                /\ conn_device[Get(connected_devices, d)] = d)
    /\ [][\A c \in Conns, d \in DeviceIds :
            (/\ conn_device[c] = d
             /\ d \in Keys(connected_devices)
             /\ \E c2 \in Conns \ {c} :
                   RegisteredOpen(c2, d) /\ Get(connected_devices, d) = c2
             /\ RelayHubCleanup(c))
            => /\ connected_devices' = connected_devices
               /\ h2c' = h2c]_vars

\* the close of the only connection registered under an id removes the id
C34_LastCloseRemoves ==
    [][\A c \in Conns, d \in DeviceIds :
          (/\ conn_device[c] = d
           /\ d \in Keys(connected_devices)
           /\ Get(connected_devices, d) = c
           /\ RelayHubCleanup(c))
          => d \notin Keys(connected_devices')]_vars

\* ===================================================================== C35
\* C35 -- Every entry of the connected table refers to a connection whose
\* handle_websocket has not returned: once a connection has closed and its
\* handler has run the finally block, no device id maps to it, not even an
\* id the connection had registered before it registered under another id.
C35_EntriesOpen ==
    \A i \in DOMAIN connected_devices :
        conn_state[connected_devices[i].ws] # "done"

\* the same for the id a connection registered last and still holds in the
\* table when it closes
C35_LastIdRemoved ==
    [][\A c \in Conns :
          HubCleanup(c) /\ conn_device[c] # None
             => conn_device[c] \notin Keys(connected_devices')]_vars

\* ===================================================================== C36
\* C36 -- The state is Playing exactly when a playback friend is set; while
\* Playing the playback friend is the selected friend, playback_index is an
\* index into that friend's messages and the playback timer is pending;
\* while not Playing playback_index is -1 and no playback timer is pending.
C36_PlaybackFields ==
    /\ (state = PLAYING) <=> (playback_friend # None)
    /\ state = PLAYING =>
          /\ playback_friend = selected_friend
          /\ 0 <= playback_index
          /\ playback_index < Len(messages[playback_friend])
          /\ playback_timer
    /\ state # PLAYING => playback_index = -1 /\ ~playback_timer

C36_Witness ==
    /\ state = PLAYING
    /\ playback_index = 1
    /\ playback_timer
    /\ conversation_mode

\* ===================================================================== C37
\* C37 -- pending_autoplay is non-empty only while the state is Recording,
\* whenever no handler is in the middle of its run: every exit from
\* Recording plays or clears it, also when handle_message_received on the
\* transport's thread overlaps the button handler that ends the recording.
C37_PendingOnlyRecording ==
    (HwIdle /\ NetIdle /\ pending_autoplay # <<>>) => state = RECORDING

\* the same with each handler run to its end before the next one starts
C37_PendingOnlyRecordingSerial ==
    pending_autoplay # <<>> => state = RECORDING

C37_StashedInRecording ==
    pending_autoplay # <<>> /\ state = RECORDING

\* ===================================================================== C38
\* a step in which the player is started on a message
PlaybackStarts == CallIdx(calls', "play_message") # {}

\* C38 -- Playback of a message starts without a press of a friend button
\* only if conversation_mode is true at that moment: after the conversation
\* timeout has fired or the dialog button has switched the mode off,
\* neither an arrival nor a stashed pending_autoplay starts playback.
C38_AutoPlayOnlyInMode ==
    [][(PlaybackStarts /\ ~FriendAct) => conversation_mode']_vars

\* an arrival starts playback only in conversation mode
C38_ArrivalPlaysOnlyInMode ==
    [][(PlaybackStarts /\ ArrivedAct) => conversation_mode /\ state = IDLE]_vars

\* what is left to the stash: the step is the end of a recording
C38_ElseEndOfRecording ==
    [][(PlaybackStarts /\ ~FriendAct /\ ~conversation_mode') => RecordStops]_vars

\* ===================================================================== C39
\* ---- the playback timers as threads
\* A threading.Timer is a thread that waits and then calls its function;
\* cancel() stops it only while it waits.  The button and message handlers
\* run to their ends on their threads; what they do to the Timer objects:
\* a cancelled or replaced timer that had expired goes on to its call, a
\* timer that is kept stays as it was.
MaxFiring == 2
MaxOrphans == 1

TimerFrame ==
    /\ timer_threads' =
          [timer_threads EXCEPT !.expired =
              /\ @
              /\ playback_timer /\ playback_timer'
              /\ CallIdx(calls', "play_message") = {}]
    /\ UNCHANGED <<Config, Net, hubVars, relayVars, threadVars, linkVars,
                   lifeVars, playerVars>>

\* hardware.on_friend_button(friend_id)
FriendButtonTimers(f) ==
    /\ f \in friends
    /\ Apply(HandleFriendButton(Cur, f))
    /\ TimerFrame

\* hardware.on_record_button()
RecordButtonTimers(startOk, yield) ==
    /\ state = RECORDING => startOk
    /\ state # RECORDING => ~yield
    /\ yield => TotalMsgs(messages) < MaxMsgs
    /\ Apply(HandleRecordButton(Cur, startOk, yield))
    /\ TimerFrame

\* network.on_message_received(friend_id, message_data)
MessageArrivedTimers(f) ==
    /\ f \in friends
    /\ mock_mode \/ connected
    /\ TotalMsgs(messages) < MaxMsgs
    /\ LET id == FreshId(Cur)
           message_data == [id |-> id, file |-> id]
       IN Apply(HandleMessageReceived([Cur EXCEPT !.files = @ \cup {id}],
                                      f, message_data))
    /\ TimerFrame

\* the wait of the timer self.playback_timer refers to is over
TimerExpires ==
    /\ playback_timer /\ ~timer_threads.expired
    /\ timer_threads.firing < MaxFiring
    /\ timer_threads' = [timer_threads EXCEPT !.expired = TRUE,
                                              !.firing = @ + 1]
    /\ UNCHANGED <<coordVars, hubVars, relayVars, threadVars, linkVars,
                   lifeVars, playerVars>>

\* the wait of a timer nothing refers to any more is over
OrphanExpires ==
    /\ timer_threads.orphaned > 0
    /\ timer_threads.firing < MaxFiring
    /\ timer_threads' = [timer_threads EXCEPT !.orphaned = @ - 1,
                                              !.firing = @ + 1]
    /\ UNCHANGED <<coordVars, hubVars, relayVars, threadVars, linkVars,
                   lifeVars, playerVars>>

\* _on_playback_finished on the thread of the timer self.playback_timer
\* refers to
TimerCallback ==
    /\ timer_threads.expired
    /\ Apply(OnPlaybackFinished(Cur))
    /\ timer_threads' = [timer_threads EXCEPT !.expired = FALSE,
                                              !.firing = @ - 1]
    /\ UNCHANGED <<Config, Net, hubVars, relayVars, threadVars, linkVars,
                   lifeVars, playerVars>>

\* _on_playback_finished on the thread of a timer that was cancelled or
\* replaced after its wait was over: "self.playback_timer = None" drops the
\* reference to the timer of the playback in progress, which runs on
StaleTimerCallback ==
    /\ timer_threads.firing > (IF timer_threads.expired THEN 1 ELSE 0)
    /\ (playback_timer /\ ~timer_threads.expired)
          => timer_threads.orphaned < MaxOrphans
    /\ Apply(OnPlaybackFinished(Cur))
    /\ timer_threads' =
          [expired |-> FALSE,
           orphaned |-> IF playback_timer /\ ~timer_threads.expired
                        THEN timer_threads.orphaned + 1
                        ELSE timer_threads.orphaned,
           firing |-> timer_threads.firing - 1]
    /\ UNCHANGED <<Config, Net, hubVars, relayVars, threadVars, linkVars,
                   lifeVars, playerVars>>

NextTimers ==
    \/ \E f \in AllFriends : FriendButtonTimers(f)
    \/ \E startOk, yield \in BOOLEAN : RecordButtonTimers(startOk, yield)
    \/ \E f \in AllFriends : MessageArrivedTimers(f)
    \/ TransportConnects
    \/ TimerExpires
    \/ OrphanExpires
    \/ TimerCallback
    \/ StaleTimerCallback

SpecTimers == Init /\ [][NextTimers]_vars

\* C39 -- The expiry of a playback timer that has been superseded or
\* cancelled, also one whose wait was over when it was cancelled, neither
\* stops the playback started since, nor clears that playback's timer, nor
\* moves the state out of a Playing or Recording state entered afterwards.
C39_StaleExpiryHarmless ==
    [][StaleTimerCallback =>
          /\ UNCHANGED <<state, playback_friend, playback_index, playback_timer>>
          /\ CallIdx(calls', "stop_playback") = {}]_vars

\* such an expiry leaves a recording alone
C39_RecordingKept ==
    [][(StaleTimerCallback /\ state = RECORDING) =>
          UNCHANGED <<state, audio_recording, pending_autoplay>>]_vars

\* with no expiry overlapping a cancel, every call of _on_playback_finished
\* is made by the timer of the playback in progress
C39_SerialExpiryOwn ==
    [][PlaybackTimerFires => state = PLAYING /\ playback_timer]_vars

\* ===================================================================== C40
\* ---- frames that name a sender of their own
\* Well-formed frames in which the client has filled in the field the hub
\* sets when it forwards.
SpoofedFrames ==
    { [WireMsg("voice_message") EXCEPT !.recipient_id = r, !.sender_id = s,
                                       !.message_id = 1,
                                       !.audio_data = SomeAudio,
                                       !.timestamp = 7] :
        r \in DeviceIds, s \in DeviceIds }
    \cup { [WireMsg("message_heard") EXCEPT !.sender_id = r, !.listener_id = s,
                                           !.message_id = 1] :
             r \in DeviceIds, s \in DeviceIds }
    \cup { [WireMsg("recording_started") EXCEPT !.recipient_id = r,
                                               !.sender_id = s] :
             r \in DeviceIds, s \in DeviceIds }

NextHubIdentity ==
    \/ NextHub
    \/ \E c \in Conns, raw \in SpoofedFrames :
           HubRecv(c, raw, FALSE) /\ UNCHANGED nonHub

SpecHubIdentity == InitHub /\ [][NextHubIdentity]_vars

\* the frames of the step that relay a device's message
Relayed(sends) ==
    {i \in DOMAIN sends :
        sends[i].msg.type \in {"voice_message", "message_heard",
                               "recording_started", "recording_stopped"}}

\* the origin a relayed frame names
OriginIn(msg) ==
    IF msg.type = "message_heard" THEN msg.listener_id ELSE msg.sender_id

\* C40 -- Every voice_message, message_heard and recording_* frame the hub
\* forwards names as its origin the device id its connection registered
\* with, whatever the client has put in the frame, and nothing that arrives
\* on a connection that has not registered is forwarded.
C40_SenderIdentity ==
    [][Relayed(hub_sends') # {} =>
          \A c \in Conns, raises \in BOOLEAN,
             raw \in HubInputs \cup SpoofedFrames :
             HubRecv(c, raw, raises) =>
                \A i \in Relayed(hub_sends') :
                   /\ conn_device[c] # None
                   /\ OriginIn(hub_sends'[i].msg) = conn_device[c]]_vars

\* a connection that has registered: the origin a client puts in its frame
\* is replaced by the id it registered with
C40_RegisteredIdentity ==
    [][Relayed(hub_sends') # {} =>
          \A c \in {k \in Conns : conn_device[k] # None}, raw \in SpoofedFrames :
             HubRecv(c, raw, FALSE) =>
                \A i \in Relayed(hub_sends') :
                   OriginIn(hub_sends'[i].msg) = conn_device[c]]_vars

====
